---- MODULE Spec2Model ----
(***************************************************************************)
(* Model of the analytics engines of src/src/analytics: RFMAnalyzer,       *)
(* CLVAnalyzer and CohortAnalyzer.                                         *)
(*                                                                         *)
(* A DataFrame is a record [cols |-> set of column names, rows |-> a       *)
(* sequence of rows]; a row is a record whose fields are the columns in    *)
(* which the row holds a value, so a NaN cell is a missing field.  Dates   *)
(* are day numbers (day 0 is Monday 2024-01-01).  Float columns are exact  *)
(* rationals <<numerator, denominator>> in lowest terms.  None is the      *)
(* Python None of an engine field that no call has set yet.                *)
(***************************************************************************)
EXTENDS Integers, Sequences, FiniteSets, TLC

VARIABLES
    customers_df,     \* the caller's customers table
    orders_df,        \* the caller's orders table
    reference_date,   \* RFMAnalyzer.reference_date
    rfm_data,         \* RFMAnalyzer.rfm_data
    segments,         \* RFMAnalyzer.segments
    segment_insights, \* the dict returned by the last get_segment_insights
    clv_data,         \* CLVAnalyzer.clv_data
    clv_insights,     \* the dict returned by the last get_clv_insights
    period_type,      \* CohortAnalyzer.period_type
    cohort_data,      \* CohortAnalyzer.cohort_data
    retention_table,  \* CohortAnalyzer.retention_table
    insights,         \* the dict returned by the last get_cohort_insights
    revenue_table,    \* the table returned by the last analyze_revenue_cohorts
    ltv_data,         \* the first table returned by calculate_ltv_by_cohort
    final_ltv,        \* the second table returned by calculate_ltv_by_cohort
    rfm_table,        \* the RFM table the caller hands to behavioral_segmentation
    random_state,     \* CustomerSegmentation.random_state
    segmented_data,   \* CustomerSegmentation.segmented_data
    optimal_k,        \* the cluster count the last behavioral_segmentation chose
    silhouette_scores, \* its silhouette score (times the row count) per candidate k
    np_random,        \* the number of draws made from numpy's global generator
    lastCall,         \* the method called by the last step
    lastResult,       \* "ok" or the class of the exception it raised
    ran,              \* the methods that have returned without raising
    row               \* the score triple handed to assign_segment on its own

vars == <<customers_df, orders_df, reference_date, rfm_data, segments,
          segment_insights, clv_data, clv_insights, period_type, cohort_data, retention_table, insights, revenue_table,
          ltv_data, final_ltv, rfm_table, random_state, segmented_data,
          optimal_k, silhouette_scores, np_random, lastCall, lastResult, ran, row>>

tableVars == <<customers_df, orders_df>>

rfmVars == <<reference_date, rfm_data, segments, row, segment_insights>>

clvVars == <<clv_data, clv_insights>>

revenueVars == <<revenue_table, ltv_data, final_ltv>>

cohortVars == <<period_type, cohort_data, retention_table, insights,
                revenue_table, ltv_data, final_ltv>>

segmentationVars ==
    <<rfm_table, random_state, segmented_data, optimal_k, silhouette_scores,
      np_random>>

None == [None |-> TRUE]

\* the bookkeeping of a call of method that ended with result
Log(method, result) ==
    /\ lastCall' = method
    /\ lastResult' = result
    /\ ran' = IF result = "ok" THEN ran \cup {method} ELSE ran

(***************************************************************************)
(* Bounds of the model.                                                    *)
(***************************************************************************)
MaxCust == 5

\* the largest customers table handed to the scorers on their own
MaxScored == 7

(***************************************************************************)
(* Generic helpers.                                                        *)
(***************************************************************************)
Range(s) == {s[i] : i \in DOMAIN s}

Max2(a, b) == IF a >= b THEN a ELSE b

SetMax(S) == CHOOSE x \in S : \A y \in S : y <= x

SetMin(S) == CHOOSE x \in S : \A y \in S : x <= y

RECURSIVE SumOver(_, _)
SumOver(f, S) ==
    IF S = {} THEN 0
    ELSE LET x == CHOOSE y \in S : TRUE IN f[x] + SumOver(f, S \ {x})

\* the elements of a finite set of integers in increasing order
RECURSIVE SortedSeq(_)
SortedSeq(S) ==
    IF S = {} THEN << >>
    ELSE LET m == SetMin(S) IN <<m>> \o SortedSeq(S \ {m})

\* f itself, as an explicitly enumerated function (evaluated once)
Eager(f) == << >> @@ f

\* record r extended or overwritten with the fields of record s
Merge(r, s) ==
    [k \in (DOMAIN r) \cup (DOMAIN s) |-> IF k \in DOMAIN s THEN s[k] ELSE r[k]]

\* record r restricted to the fields in K
Restrict(r, K) == [k \in (DOMAIN r) \cap K |-> r[k]]

\* DataFrame.fillna(dict): a NaN cell of a column named in fill gets its value
FillNa(df, fill) ==
    [cols |-> df.cols,
     rows |-> [i \in DOMAIN df.rows |->
                 Merge(Restrict(fill, df.cols), df.rows[i])]]

(***************************************************************************)
(* Exact arithmetic for the float columns: <<n, d>> with d > 0, in lowest  *)
(* terms, so that equal numbers are equal values.                          *)
(***************************************************************************)
Abs(x) == IF x < 0 THEN -x ELSE x

RECURSIVE Gcd(_, _)
Gcd(a, b) == IF b = 0 THEN a ELSE Gcd(b, a % b)

Rat(n, d) ==
    LET g == Gcd(Abs(n), Abs(d))
        s == IF d < 0 THEN -1 ELSE 1
    IN  <<(s * n) \div g, (s * d) \div g>>

RInt(n) == <<n, 1>>

RMul(a, b) == Rat(a[1] * b[1], a[2] * b[2])

RDiv(a, b) == Rat(a[1] * b[2], a[2] * b[1])

RAdd(a, b) == Rat(a[1] * b[2] + b[1] * a[2], a[2] * b[2])

RSub(a, b) == Rat(a[1] * b[2] - b[1] * a[2], a[2] * b[2])

RLe(a, b) == a[1] * b[2] <= b[1] * a[2]

RLt(a, b) == a[1] * b[2] < b[1] * a[2]

\* Series.clip(lower, upper)
RClip(a, lo, hi) == IF RLt(a, lo) THEN lo ELSE IF RLt(hi, a) THEN hi ELSE a

(***************************************************************************)
(* The input tables.  Each customer of the customers table has one of a    *)
(* few purchase histories; an order may also name a customer_id that the   *)
(* customers table does not hold (GhostId).                                *)
(***************************************************************************)
ReferenceDates == {500}

GhostId == MaxCust + 1

\* purchase histories: sequences of <<order_date, final_amount>>
Histories ==
    << << >>,
       << <<480, 50>> >>,
       << <<100, 40>>, <<200, 60>> >>,
       << <<250, 10>>, <<450, 90>> >>,
       << <<200, 80>>, <<470, 20>>, <<490, 20>> >> >>

SignupDates == {70, 100}

CustomersTable(signup) ==
    [cols |-> {"customer_id", "signup_date"},
     rows |-> [i \in DOMAIN signup |->
                 [customer_id |-> i, signup_date |-> signup[i]]]]

\* the orders of customer cid with history h, order ids numbered from base
OrdersOf(cid, h, base) ==
    [k \in DOMAIN h |->
       [order_id |-> base + k, customer_id |-> cid,
        order_date |-> h[k][1], final_amount |-> h[k][2]]]

RECURSIVE OrderRows(_, _, _)
OrderRows(hist, i, base) ==
    IF i > Len(hist) THEN << >>
    ELSE OrdersOf(i, Histories[hist[i]], base)
           \o OrderRows(hist, i + 1, base + Len(Histories[hist[i]]))

\* hist[i] is the history of customer i, ghost the history of GhostId
OrdersTable(hist, ghost) ==
    [cols |-> {"order_id", "customer_id", "order_date", "final_amount"},
     rows |-> OrdersOf(GhostId, Histories[ghost], 100) \o OrderRows(hist, 1, 0)]

(***************************************************************************)
(* pandas primitives used by the scorers.                                  *)
(***************************************************************************)
\* Series.rank(method='min', ascending=asc): equal values share a rank
RankMin(v, asc) ==
    Eager([i \in DOMAIN v |->
       1 + Cardinality({j \in DOMAIN v :
                          IF asc THEN v[j] < v[i] ELSE v[j] > v[i]})])

\* Series.rank(method='first', ascending=asc) of the integer sequence v:
\* equal values are ranked in their order of appearance
RankFirst(v, asc) ==
    Eager([i \in DOMAIN v |->
       1 + Cardinality({j \in DOMAIN v :
                          IF asc THEN v[j] < v[i] ELSE v[j] > v[i]})
         + Cardinality({j \in DOMAIN v : j < i /\ v[j] = v[i]})])

\* the p-th smallest value of the integer sequence v (1 <= p <= Len(v))
OrderStat(v, p) ==
    CHOOSE x \in Range(v) :
      /\ Cardinality({j \in DOMAIN v : v[j] < x}) < p
      /\ p <= Cardinality({j \in DOMAIN v : v[j] <= x})

NumQuantiles == 5

\* NumQuantiles times the k/NumQuantiles quantile of v (linear interpolation
\* between the two order statistics around position k(N-1)/NumQuantiles)
QuantileEdge(v, k) ==
    LET h  == k * (Len(v) - 1)
        lo == h \div NumQuantiles
        fr == h % NumQuantiles
    IN  IF fr = 0 THEN NumQuantiles * OrderStat(v, lo + 1)
        ELSE NumQuantiles * OrderStat(v, lo + 1)
               + fr * (OrderStat(v, lo + 2) - OrderStat(v, lo + 1))

\* pd.qcut(v, q=5, labels=labels): [ok |-> FALSE] when it raises ValueError
\* (no value, or bin edges that are not unique), else the label of each value:
\* value x is in bin b when edge[b-1] < x <= edge[b], the lowest edge included
Qcut(v, labels) ==
    IF Len(v) = 0 THEN [ok |-> FALSE]
    ELSE LET edge == Eager([k \in 0..NumQuantiles |-> QuantileEdge(v, k)])
             bin(x) == Cardinality({k \in 0..NumQuantiles :
                                      edge[k] < NumQuantiles * x})
         IN  IF \E j, k \in 0..NumQuantiles : j # k /\ edge[j] = edge[k]
             THEN [ok |-> FALSE]
             ELSE [ok |-> TRUE,
                   val |-> Eager([i \in DOMAIN v |->
                                    labels[Max2(bin(v[i]), 1)]])]

\* str(int) of a score
Digit == [d \in 0..9 |->
            CASE d = 0 -> "0" [] d = 1 -> "1" [] d = 2 -> "2" [] d = 3 -> "3"
              [] d = 4 -> "4" [] d = 5 -> "5" [] d = 6 -> "6" [] d = 7 -> "7"
              [] d = 8 -> "8" [] d = 9 -> "9"]

(***************************************************************************)
(* RFMAnalyzer                                                             *)
(***************************************************************************)
segment_rules ==
    "Champions"           :> [R |-> <<4, 5>>, F |-> <<4, 5>>, M |-> <<4, 5>>] @@
    "Loyal Customers"     :> [R |-> <<3, 5>>, F |-> <<3, 5>>, M |-> <<3, 5>>] @@
    "Potential Loyalists" :> [R |-> <<3, 5>>, F |-> <<1, 3>>, M |-> <<1, 3>>] @@
    "New Customers"       :> [R |-> <<4, 5>>, F |-> <<1, 1>>, M |-> <<1, 1>>] @@
    "Promising"           :> [R |-> <<3, 4>>, F |-> <<1, 1>>, M |-> <<1, 1>>] @@
    "Need Attention"      :> [R |-> <<2, 3>>, F |-> <<2, 3>>, M |-> <<2, 3>>] @@
    "About to Sleep"      :> [R |-> <<2, 3>>, F |-> <<1, 2>>, M |-> <<1, 2>>] @@
    "At Risk"             :> [R |-> <<1, 2>>, F |-> <<2, 5>>, M |-> <<2, 5>>] @@
    "Cannot Lose Them"    :> [R |-> <<1, 2>>, F |-> <<4, 5>>, M |-> <<4, 5>>] @@
    "Hibernating"         :> [R |-> <<1, 2>>, F |-> <<1, 2>>, M |-> <<1, 2>>] @@
    "Lost"                :> [R |-> <<1, 1>>, F |-> <<1, 1>>, M |-> <<1, 1>>]

\* a mis-ordered priority list: At Risk tested before Cannot Lose Them
segment_priority_swapped ==
    <<"Champions", "Loyal Customers", "Potential Loyalists", "New Customers",
      "Promising", "At Risk", "Cannot Lose Them", "Need Attention",
      "About to Sleep", "Hibernating", "Lost">>

segment_priority ==
    <<"Champions", "Loyal Customers", "Potential Loyalists", "New Customers",
      "Promising", "Cannot Lose Them", "At Risk", "Need Attention",
      "About to Sleep", "Hibernating", "Lost">>

\* the test of the loop body of assign_segment
InBox(rules, r, f, m) ==
    /\ rules.R[1] <= r /\ r <= rules.R[2]
    /\ rules.F[1] <= f /\ f <= rules.F[2]
    /\ rules.M[1] <= m /\ m <= rules.M[2]

\* the loop of assign_segment from position i of segment_priority on
RECURSIVE SegmentFrom(_, _)
SegmentFrom(rw, i) ==
    IF i > Len(segment_priority) THEN "Others"
    ELSE IF InBox(segment_rules[segment_priority[i]],
                  rw.R_score, rw.F_score, rw.M_score)
         THEN segment_priority[i]
         ELSE SegmentFrom(rw, i + 1)

assign_segment(rw) == SegmentFrom(rw, 1)

\* zero-based labels for the frequency and monetary bins
FMLabelsZeroBased == <<0, 1, 2, 3, 4>>

RLabels == <<5, 4, 3, 2, 1>>

FMLabels == <<1, 2, 3, 4, 5>>

\* orders_df.groupby('customer_id').agg(...): one row per ordering customer,
\* in increasing customer_id order, with recency added
CustomerRfm(orders, refdate) ==
    LET ids == SortedSeq({o.customer_id : o \in Range(orders.rows)})
        of(c) == {k \in DOMAIN orders.rows : orders.rows[k].customer_id = c}
    IN  Eager([i \in DOMAIN ids |->
           LET last == SetMax({orders.rows[k].order_date : k \in of(ids[i])})
           IN  [customer_id     |-> ids[i],
                last_order_date |-> last,
                frequency       |-> Cardinality(of(ids[i])),
                monetary        |-> SumOver([k \in of(ids[i]) |->
                                       orders.rows[k].final_amount], of(ids[i])),
                recency         |-> refdate - last]])

RfmColumns ==
    {"last_order_date", "frequency", "monetary", "recency", "R_score",
     "F_score", "M_score", "RFM_score", "RFM_avg_score"}

RfmFill ==
    [recency |-> 999, frequency |-> 0, monetary |-> 0,
     R_score |-> 1, F_score |-> 1, M_score |-> 1,
     RFM_score |-> "111", RFM_avg_score |-> <<1, 1>>]

\* the join with how='inner': customers without a row in right are dropped
InnerMerge(customers, right, rightcols) ==
    LET keep == SortedSeq({i \in DOMAIN customers.rows :
                   \E k \in DOMAIN right :
                     right[k].customer_id = customers.rows[i].customer_id})
    IN  [cols |-> customers.cols \cup rightcols,
         rows |-> [p \in DOMAIN keep |->
                     Merge(customers.rows[keep[p]],
                           right[CHOOSE k \in DOMAIN right :
                                   right[k].customer_id
                                     = customers.rows[keep[p]].customer_id])]]

\* customers.merge(right, on='customer_id', how='left') for a right table
\* whose customer_id values are unique
LeftMerge(customers, right, rightcols) ==
    [cols |-> customers.cols \cup rightcols,
     rows |-> [i \in DOMAIN customers.rows |->
                 LET hit == {k \in DOMAIN right :
                               right[k].customer_id = customers.rows[i].customer_id}
                 IN  IF hit = {} THEN customers.rows[i]
                     ELSE Merge(customers.rows[i], right[CHOOSE k \in hit : TRUE])]]

\* the three qcut calls of calculate_rfm_scores on the aggregated rows
RScores(agg) ==
    Qcut(RankFirst([i \in DOMAIN agg |-> agg[i].recency], FALSE), RLabels)

FScores(agg) ==
    Qcut(RankFirst([i \in DOMAIN agg |-> agg[i].frequency], TRUE), FMLabels)

MScores(agg) ==
    Qcut(RankFirst([i \in DOMAIN agg |-> agg[i].monetary], TRUE), FMLabels)

\* the table calculate_rfm_scores stores when no qcut raises
RfmTable(customers, agg) ==
    LET R == RScores(agg).val
        F == FScores(agg).val
        M == MScores(agg).val
        scored == Eager([i \in DOMAIN agg |->
                     Merge(agg[i],
                           [R_score |-> R[i], F_score |-> F[i], M_score |-> M[i],
                            RFM_score |-> Digit[R[i]] \o Digit[F[i]] \o Digit[M[i]],
                            RFM_avg_score |-> Rat(R[i] + F[i] + M[i], 3)])])
    IN  FillNa(LeftMerge(customers, scored, RfmColumns), RfmFill)

calculate_rfm_scores ==
    LET agg == CustomerRfm(orders_df, reference_date)
    IN  /\ IF RScores(agg).ok /\ FScores(agg).ok /\ MScores(agg).ok
           THEN /\ rfm_data' = RfmTable(customers_df, agg)
                /\ Log("calculate_rfm_scores", "ok")
           ELSE /\ Log("calculate_rfm_scores", "ValueError")
                /\ UNCHANGED rfm_data
        /\ UNCHANGED <<tableVars, reference_date, segments, row,
                       segment_insights, clvVars, segmentationVars, cohortVars>>

\* Series.value_counts(): the count of each value that occurs
ValueCounts(df, col) ==
    [v \in {df.rows[i][col] : i \in DOMAIN df.rows} |->
       Cardinality({i \in DOMAIN df.rows : df.rows[i][col] = v})]

\* assign_segments without its guard: None has no apply method
assign_segments_unguarded ==
    /\ IF rfm_data = None
       THEN /\ Log("assign_segments", "AttributeError")
            /\ UNCHANGED <<rfm_data, segments>>
       ELSE LET out == [cols |-> rfm_data.cols \cup {"segment"},
                        rows |-> [i \in DOMAIN rfm_data.rows |->
                                    Merge(rfm_data.rows[i],
                                          [segment |-> assign_segment(rfm_data.rows[i])])]]
            IN  /\ rfm_data' = out
                /\ segments' = ValueCounts(out, "segment")
                /\ Log("assign_segments", "ok")
    /\ UNCHANGED <<tableVars, reference_date, row, segment_insights, clvVars, segmentationVars,
                   cohortVars>>

assign_segments ==
    /\ IF rfm_data = None
       THEN /\ Log("assign_segments", "ValueError")
            /\ UNCHANGED <<rfm_data, segments>>
       ELSE LET out == [cols |-> rfm_data.cols \cup {"segment"},
                        rows |-> [i \in DOMAIN rfm_data.rows |->
                                    Merge(rfm_data.rows[i],
                                          [segment |-> assign_segment(rfm_data.rows[i])])]]
            IN  /\ rfm_data' = out
                /\ segments' = ValueCounts(out, "segment")
                /\ Log("assign_segments", "ok")
    /\ UNCHANGED <<tableVars, reference_date, row, segment_insights, clvVars, segmentationVars,
                   cohortVars>>

\* DataFrame.apply(assign_segment, axis=1) on a table of one row
apply_assign_segment ==
    /\ "segment" \notin DOMAIN row
    /\ row' = Merge(row, [segment |-> assign_segment(row)])
    /\ Log("assign_segment", "ok")
    /\ UNCHANGED <<tableVars, reference_date, rfm_data, segments,
                   segment_insights, clvVars, segmentationVars, cohortVars>>

\* the dict of get_segment_insights (the source texts are Korean)
SegmentInsights ==
    ("Champions" :>
        [description |-> "the best customers: bought recently, often and much",
         action_plan |-> <<"recommend premium products", "offer a VIP programme",
                           "referral programme">>,
         marketing_budget |-> "high (best ROI)"])
    @@ ("Loyal Customers" :>
        [description |-> "loyal customers who buy regularly",
         action_plan |-> <<"give loyalty points", "regular discount coupons",
                           "early notice of new products">>,
         marketing_budget |-> "medium-high"])
    @@ ("At Risk" :>
        [description |-> "good customers of the past at risk of churn",
         action_plan |-> <<"personalised re-engagement messages",
                           "special discounts", "win-back campaign">>,
         marketing_budget |-> "medium"])
    @@ ("Cannot Lose Them" :>
        [description |-> "high-value customers who must not be lost",
         action_plan |-> <<"contact personally at once", "premium service",
                           "assign a VIP manager">>,
         marketing_budget |-> "high (urgent)"])

get_segment_insights ==
    /\ segment_insights' = SegmentInsights
    /\ Log("get_segment_insights", "ok")
    /\ UNCHANGED <<tableVars, reference_date, rfm_data, segments, row, clvVars, segmentationVars,
                   cohortVars>>

(***************************************************************************)
(* CLVAnalyzer                                                             *)
(***************************************************************************)
\* 30.44, the average number of days of a month
DaysPerMonth == <<761, 25>>

\* orders_df.groupby('customer_id').agg(...) of calculate_historical_clv with
\* the derived columns, one row per ordering customer
CustomerStats(orders) ==
    LET ids == SortedSeq({o.customer_id : o \in Range(orders.rows)})
        of(c) == {k \in DOMAIN orders.rows : orders.rows[k].customer_id = c}
    IN  Eager([i \in DOMAIN ids |->
           LET mine   == of(ids[i])
               total  == SumOver([k \in mine |-> orders.rows[k].final_amount], mine)
               count  == Cardinality(mine)
               first  == SetMin({orders.rows[k].order_date : k \in mine})
               last   == SetMax({orders.rows[k].order_date : k \in mine})
               days   == Max2(last - first, 1)
               months == RDiv(RInt(days), DaysPerMonth)
               freq   == RDiv(RInt(count), months)
               life   == RClip(RMul(months, <<3, 2>>), RInt(1), RInt(60))
               avg    == Rat(total, count)
           IN  [customer_id                |-> ids[i],
                total_spent                |-> RInt(total),
                avg_order_value            |-> avg,
                purchase_frequency         |-> count,
                first_purchase             |-> first,
                last_purchase              |-> last,
                customer_lifespan_days     |-> days,
                purchase_frequency_monthly |-> freq,
                predicted_lifespan_months  |-> life,
                historical_clv             |-> RMul(RMul(avg, freq), life)]])

StatsColumns ==
    {"total_spent", "avg_order_value", "purchase_frequency", "first_purchase",
     "last_purchase", "customer_lifespan_days", "purchase_frequency_monthly",
     "predicted_lifespan_months", "historical_clv"}

StatsFill ==
    [total_spent |-> RInt(0), avg_order_value |-> RInt(0),
     purchase_frequency |-> 0, purchase_frequency_monthly |-> RInt(0),
     predicted_lifespan_months |-> RInt(12), historical_clv |-> RInt(0)]

\* calculate_historical_clv keeping a table it has already computed
calculate_historical_clv_cached ==
    /\ clv_data' = IF clv_data # None THEN clv_data
                   ELSE FillNa(LeftMerge(customers_df, CustomerStats(orders_df),
                                         StatsColumns), StatsFill)
    /\ Log("calculate_historical_clv", "ok")
    /\ UNCHANGED <<tableVars, rfmVars, cohortVars, segmentationVars, clv_insights>>

calculate_historical_clv ==
    /\ clv_data' = FillNa(LeftMerge(customers_df, CustomerStats(orders_df),
                                    StatsColumns), StatsFill)
    /\ Log("calculate_historical_clv", "ok")
    /\ UNCHANGED <<tableVars, rfmVars, cohortVars, segmentationVars, clv_insights>>

RecentWindowDays == 180

PreviousWindowDays == 360

\* final_amount summed per customer over the orders dated in [from, to)
SpendingIn(orders, from, to) ==
    LET in  == {k \in DOMAIN orders.rows :
                  from <= orders.rows[k].order_date /\ orders.rows[k].order_date < to}
        ids == {orders.rows[k].customer_id : k \in in}
    IN  [c \in ids |->
           LET mine == {k \in in : orders.rows[k].customer_id = c}
           IN  SumOver([k \in mine |-> orders.rows[k].final_amount], mine)]

\* a growth rate that counts spending after a window without any as +100%
GrowthRateFromZero(recent, previous) ==
    IF previous > 0 THEN Rat(recent - previous, previous) ELSE RInt(1)

\* np.where(previous > 0, (recent - previous) / previous, 0)
GrowthRate(recent, previous) ==
    IF previous > 0 THEN Rat(recent - previous, previous) ELSE RInt(0)

\* the multiplier without the clip
TrendMultiplierUnclipped(growth) == RAdd(RInt(1), RMul(growth, <<1, 2>>))

\* 1 + growth * 0.5, clipped to [0.5, 2.0]
TrendMultiplier(growth) ==
    RClip(RAdd(RInt(1), RMul(growth, <<1, 2>>)), <<1, 2>>, RInt(2))

\* trend_data: one row per customer with an order in the recent window
TrendData(orders) ==
    LET recent_date == SetMax({o.order_date : o \in Range(orders.rows)})
        six         == recent_date - RecentWindowDays
        twelve      == recent_date - PreviousWindowDays
        recent      == SpendingIn(orders, six, recent_date + 1)
        previous    == SpendingIn(orders, twelve, six)
        ids         == SortedSeq(DOMAIN recent)
    IN  Eager([i \in DOMAIN ids |->
           LET prev == IF ids[i] \in DOMAIN previous THEN previous[ids[i]] ELSE 0
               g    == GrowthRate(recent[ids[i]], prev)
           IN  [customer_id          |-> ids[i],
                spending_growth_rate |-> g,
                trend_multiplier     |-> TrendMultiplier(g)]])

TrendColumns == {"spending_growth_rate", "trend_multiplier"}

TrendFill == [spending_growth_rate |-> RInt(0), trend_multiplier |-> RInt(1)]

\* left.merge(right, on='customer_id', how='left') with the default suffixes:
\* a column of both tables is renamed to <name>_x (left) and <name>_y (right)
SuffixMerge(left, right, rightcols) ==
    LET overlap == left.cols \cap rightcols
        lname(c) == IF c \in overlap THEN c \o "_x" ELSE c
        rname(c) == IF c \in overlap THEN c \o "_y" ELSE c
        hit(r)   == {k \in DOMAIN right : right[k].customer_id = r.customer_id}
        lrow(r)  == [n \in {lname(c) : c \in DOMAIN r} |->
                       r[CHOOSE c \in DOMAIN r : lname(c) = n]]
        rrow(q)  == [n \in {rname(c) : c \in (DOMAIN q) \ {"customer_id"}} |->
                       q[CHOOSE c \in DOMAIN q : rname(c) = n]]
    IN  [cols |-> {lname(c) : c \in left.cols} \cup {rname(c) : c \in rightcols},
         rows |-> [i \in DOMAIN left.rows |->
                     IF hit(left.rows[i]) = {} THEN lrow(left.rows[i])
                     ELSE Merge(lrow(left.rows[i]),
                                rrow(right[CHOOSE k \in hit(left.rows[i]) : TRUE]))]]

\* the suffixed names of a merge that are already column names of the left
\* table: pandas refuses such a merge (MergeError)
SuffixClash(left, rightcols) ==
    LET overlap == left.cols \cap rightcols
    IN  {c \in overlap : (c \o "_x") \in left.cols \/ (c \o "_y") \in left.cols}

calculate_predictive_clv ==
    /\ IF clv_data = None
       THEN /\ Log("calculate_predictive_clv", "ValueError")
            /\ UNCHANGED clv_data
       ELSE IF SuffixClash(clv_data, TrendColumns) # {}
       THEN /\ Log("calculate_predictive_clv", "MergeError")
            /\ UNCHANGED clv_data
       ELSE LET merged == FillNa(SuffixMerge(clv_data, TrendData(orders_df),
                                             TrendColumns), TrendFill)
            IN  IF "trend_multiplier" \in merged.cols
                THEN /\ clv_data' =
                          [cols |-> merged.cols \cup {"predictive_clv"},
                           rows |-> [i \in DOMAIN merged.rows |->
                                       Merge(merged.rows[i],
                                             [predictive_clv |->
                                                RMul(merged.rows[i].historical_clv,
                                                     merged.rows[i].trend_multiplier)])]]
                     /\ Log("calculate_predictive_clv", "ok")
                ELSE /\ clv_data' = merged
                     /\ Log("calculate_predictive_clv", "KeyError")
    /\ UNCHANGED <<tableVars, rfmVars, cohortVars, segmentationVars, clv_insights>>

HighPercentile == <<4, 5>>

LowPercentile == <<1, 5>>

\* Series.rank(method='first', pct=True): equal values ranked in row order
RankPctFirst(v) ==
    Eager([i \in DOMAIN v |->
       LET before == Cardinality({j \in DOMAIN v :
                        RLt(v[j], v[i]) \/ (v[j] = v[i] /\ j < i)})
       IN  Rat(before + 1, Len(v))])

\* Series.rank(pct=True): the average rank of the value divided by the count
RankPct(v) ==
    Eager([i \in DOMAIN v |->
       LET less  == Cardinality({j \in DOMAIN v : RLt(v[j], v[i])})
           equal == Cardinality({j \in DOMAIN v : v[j] = v[i]})
       IN  Rat(2 * less + equal + 1, 2 * Len(v))])

assign_clv_segment(percentile) ==
    IF RLe(HighPercentile, percentile) THEN "High Value"
    ELSE IF RLe(LowPercentile, percentile) THEN "Medium Value"
    ELSE "Low Value"

\* segment_customers_by_clv reading the CLV from column col
SegmentBy(col) ==
    IF clv_data = None
    THEN /\ Log("segment_customers_by_clv", "ValueError")
         /\ UNCHANGED clv_data
    ELSE IF col \notin clv_data.cols
    THEN \* self.clv_data[col] names no column
         /\ Log("segment_customers_by_clv", "KeyError")
         /\ UNCHANGED clv_data
    ELSE LET pct == RankPct([i \in DOMAIN clv_data.rows |-> clv_data.rows[i][col]])
         IN  /\ clv_data' =
                  [cols |-> clv_data.cols \cup {"clv_percentile", "clv_segment"},
                   rows |-> [i \in DOMAIN clv_data.rows |->
                               Merge(clv_data.rows[i],
                                     [clv_percentile |-> pct[i],
                                      clv_segment |-> assign_clv_segment(pct[i])])]]
             /\ Log("segment_customers_by_clv", "ok")

\* the segmentation reading historical_clv instead of predictive_clv
segment_customers_by_historical_clv ==
    /\ SegmentBy("historical_clv")
    /\ UNCHANGED <<tableVars, rfmVars, cohortVars, segmentationVars, clv_insights>>

segment_customers_by_clv ==
    /\ SegmentBy("predictive_clv")
    /\ UNCHANGED <<tableVars, rfmVars, cohortVars, segmentationVars, clv_insights>>

\* float('nan'): the quotient 0.0 / 0.0 of numpy floats
NaN == <<0, 0>>

\* Series.sum() and Series.mean() of a column of numbers
RECURSIVE RTotal(_)
RTotal(v) == IF Len(v) = 0 THEN RInt(0) ELSE RAdd(Head(v), RTotal(Tail(v)))

RAverage(v) == IF Len(v) = 0 THEN NaN ELSE RDiv(RTotal(v), RInt(Len(v)))

\* the p-th smallest number of v
RNth(v, p) ==
    CHOOSE x \in Range(v) :
      /\ Cardinality({j \in DOMAIN v : RLt(v[j], x)}) < p
      /\ p <= Cardinality({j \in DOMAIN v : RLe(v[j], x)})

\* Series.median()
RMedian(v) ==
    IF Len(v) % 2 = 1 THEN RNth(v, (Len(v) + 1) \div 2)
    ELSE RDiv(RAdd(RNth(v, Len(v) \div 2), RNth(v, Len(v) \div 2 + 1)), RInt(2))

\* the recommendations of get_clv_insights (the source texts are Korean)
ClvRecommendations ==
    ("High Value" :>
        <<"offer a VIP programme", "personalised premium service",
          "priority customer support", "exclusive products and discounts">>)
    @@ ("Medium Value" :>
        <<"upselling and cross-selling", "invite to the loyalty programme",
          "regular promotions", "improve customer satisfaction">>)
    @@ ("Low Value" :>
        <<"keep the basic service", "cost-efficient marketing",
          "automated e-mail campaigns", "churn prevention programme">>)

\* the per-segment block of get_clv_insights: one entry per segment that has
\* customers
ClvSegmentInsights(df, total_clv) ==
    LET in(seg) == SelectSeq(df.rows, LAMBDA r : r.clv_segment = seg)
        clv(seg) == [i \in DOMAIN in(seg) |-> in(seg)[i].predictive_clv]
    IN  [seg \in {g \in {"High Value", "Medium Value", "Low Value"} :
                    Len(in(g)) > 0} |->
           [customer_count   |-> Len(in(seg)),
            avg_clv          |-> RAverage(clv(seg)),
            total_clv        |-> RTotal(clv(seg)),
            clv_contribution |->
                IF total_clv[1] = 0 THEN NaN
                ELSE RMul(RDiv(RTotal(clv(seg)), total_clv), RInt(100))]]

\* the dict get_clv_insights returns for a table with predictive_clv
ClvInsights(df) ==
    LET clv == [i \in DOMAIN df.rows |-> df.rows[i].predictive_clv]
        overall == [total_predicted_clv |-> RTotal(clv),
                    average_clv         |-> RAverage(clv),
                    median_clv          |-> RMedian(clv),
                    total_customers     |-> Len(df.rows)]
    IN  IF "clv_segment" \in df.cols
        THEN [overall         |-> overall,
              segments        |-> ClvSegmentInsights(df, RTotal(clv)),
              recommendations |-> ClvRecommendations]
        ELSE [overall         |-> overall,
              recommendations |-> ClvRecommendations]

get_clv_insights ==
    /\ IF clv_data = None
       THEN /\ Log("get_clv_insights", "ValueError")
            /\ UNCHANGED clv_insights
       ELSE IF "predictive_clv" \notin clv_data.cols
       THEN \* self.clv_data['predictive_clv'] names no column
            /\ Log("get_clv_insights", "KeyError")
            /\ UNCHANGED clv_insights
       ELSE /\ clv_insights' = ClvInsights(clv_data)
            /\ Log("get_clv_insights", "ok")
    /\ UNCHANGED <<tableVars, rfmVars, cohortVars, segmentationVars, clv_data>>

(***************************************************************************)
(* CohortAnalyzer                                                          *)
(***************************************************************************)
\* the first day of each month of 2024 and 2025 (day 0 is 2024-01-01)
MonthStarts ==
    <<0, 31, 60, 91, 121, 152, 182, 213, 244, 274, 305, 335,
      366, 397, 425, 456, 486, 517, 547, 578, 609, 639, 670, 700>>

\* the ordinal of the period of a date: dt.to_period('M' | 'W' | 'D');
\* weeks run Monday to Sunday and day 0 is a Monday
ToPeriod(date, ptype) ==
    IF ptype = "monthly"
    THEN Cardinality({k \in DOMAIN MonthStarts : MonthStarts[k] <= date}) - 1
    ELSE IF ptype = "weekly" THEN date \div 7
    ELSE date

\* df with column col set to the period of the row's date column
WithColumn(df, col, dateCol, ptype) ==
    [cols |-> df.cols \cup {col},
     rows |-> [i \in DOMAIN df.rows |->
                 Merge(df.rows[i],
                       (col :> ToPeriod(df.rows[i][dateCol], ptype)))]]

\* the joined rows when an order without a customer row were given its own
\* period as cohort_group and period_number 0 instead of NaN
CohortRowsDefaulted(customers, orders) ==
    {[customer_id  |-> o.customer_id,
      cohort_group |-> c.cohort_group,
      period_number |-> o.order_period - c.cohort_group] :
        <<o, c>> \in {oc \in Range(orders.rows) \X Range(customers.rows) :
                        oc[1].customer_id = oc[2].customer_id}}
      \cup {[customer_id  |-> o.customer_id,
             cohort_group |-> o.order_period,
             period_number |-> 0] :
               o \in {x \in Range(orders.rows) :
                        \A c \in Range(customers.rows) :
                          c.customer_id # x.customer_id}}

\* get_period_number on the orders joined to their customer's cohort_group:
\* the set of [customer_id, cohort_group, period_number] of the orders whose
\* customer is in the customers table (the other rows have NaN keys, which
\* groupby drops)
CohortRows(customers, orders) ==
    {[customer_id  |-> o.customer_id,
      cohort_group |-> c.cohort_group,
      period_number |-> o.order_period - c.cohort_group] :
        <<o, c>> \in {oc \in Range(orders.rows) \X Range(customers.rows) :
                        oc[1].customer_id = oc[2].customer_id}}

\* (a, b) before (c, d) in the row order of groupby([cohort_group, period_number])
KeyBefore(k1, k2) ==
    \/ k1[1] < k2[1]
    \/ k1[1] = k2[1] /\ k1[2] < k2[2]

RECURSIVE SortedKeys(_)
SortedKeys(S) ==
    IF S = {} THEN << >>
    ELSE LET m == CHOOSE k \in S : \A j \in S \ {k} : KeyBefore(k, j)
         IN  <<m>> \o SortedKeys(S \ {m})

\* cohort_table['active_customers'] / cohort_table['total_customers']
RetentionRate(active, total) == Rat(active, total)

\* the cohort size counted over the joined order rows: the customers of the
\* cohort who ordered at all
CohortSizeOfOrderers(customers, joined, g) ==
    Cardinality({r.customer_id : r \in {x \in joined : x.cohort_group = g}})

\* cohort_sizes: customers_df.groupby('cohort_group')['customer_id'].nunique()
CohortSize(customers, joined, g) ==
    Cardinality({c.customer_id :
                   c \in {x \in Range(customers.rows) : x.cohort_group = g}})

\* the cohort table of create_signup_cohorts
CohortTable(customers, orders) ==
    LET joined == CohortRows(customers, orders)
        keys   == SortedKeys({<<r.cohort_group, r.period_number>> : r \in joined})
        size(g) == CohortSize(customers, joined, g)
    IN  [cols |-> {"cohort_group", "period_number", "active_customers",
                   "total_customers", "retention_rate"},
         rows |-> Eager([i \in DOMAIN keys |->
                    LET active == Cardinality({r.customer_id :
                                    r \in {x \in joined :
                                             /\ x.cohort_group = keys[i][1]
                                             /\ x.period_number = keys[i][2]}})
                    IN  [cohort_group     |-> keys[i][1],
                         period_number    |-> keys[i][2],
                         active_customers |-> active,
                         total_customers  |-> size(keys[i][1]),
                         retention_rate   |->
                             RetentionRate(active, size(keys[i][1]))]])]

create_signup_cohorts ==
    LET customers == WithColumn(customers_df, "cohort_group",
                                "signup_date", period_type)
        orders    == WithColumn(orders_df, "order_period",
                                "order_date", period_type)
    IN  /\ customers_df' = customers
        /\ orders_df' = orders
        /\ cohort_data' = CohortTable(customers, orders)
        /\ Log("create_signup_cohorts", "ok")
        /\ UNCHANGED <<rfmVars, clvVars, segmentationVars, period_type, retention_table, insights,
                       revenueVars>>

\* cohort_data.pivot_table(index='cohort_group', columns='period_number',
\*                         values='retention_rate', fill_value=0)
PivotRetention(df) ==
    LET index   == SortedSeq({r.cohort_group : r \in Range(df.rows)})
        columns == SortedSeq({r.period_number : r \in Range(df.rows)})
    IN  [index   |-> index,
         columns |-> columns,
         values  |-> [k \in Range(index) \X Range(columns) |->
                        LET hit == {r \in Range(df.rows) :
                                      /\ r.cohort_group = k[1]
                                      /\ r.period_number = k[2]}
                        IN  IF hit = {} THEN RInt(0)
                            ELSE (CHOOSE r \in hit : TRUE).retention_rate]]

create_retention_table ==
    /\ IF cohort_data = None
       THEN /\ Log("create_retention_table", "ValueError")
            /\ UNCHANGED retention_table
       ELSE /\ retention_table' = PivotRetention(cohort_data)
            /\ Log("create_retention_table", "ok")
    /\ UNCHANGED <<tableVars, rfmVars, clvVars, segmentationVars, period_type, cohort_data, insights,
                   revenueVars>>

\* a number that is None in the Python code
NoNumber == << >>

\* the truth value Python gives a float or None in an if
Truthy(x) == x # NoNumber /\ x[1] # 0

RECURSIVE RSum(_)
RSum(q) == IF Len(q) = 0 THEN RInt(0) ELSE RAdd(Head(q), RSum(Tail(q)))

\* Series.mean() of a non-empty sequence of numbers
RMean(q) == RDiv(RSum(q), RInt(Len(q)))

\* retention_table[p].mean(): the mean of column p over the cohorts
ColumnMean(t, p) == RMean([i \in DOMAIN t.index |-> t.values[<<t.index[i], p>>]])

\* the messages of get_cohort_insights (the source texts are Korean)
Month1Message(m1) ==
    IF RLe(<<1, 2>>, m1) THEN "1-month retention is good (50% or more)"
    ELSE IF RLe(<<3, 10>>, m1) THEN "1-month retention is moderate (30-50%)"
    ELSE "1-month retention is low (under 30%)"

DropMessage(m1, m3) ==
    IF RLe(RSub(m1, m3), <<1, 5>>) THEN "the retention decline is stable"
    ELSE "retention is dropping sharply"

OnboardingActions ==
    <<"improve the onboarding of new customers",
      "strengthen follow-up service after the first purchase",
      "survey customer satisfaction and collect feedback">>

MidTermActions ==
    <<"develop a mid-term retention programme",
      "strengthen personalised marketing campaigns",
      "consider introducing a loyalty programme">>

GeneralActions ==
    <<"set marketing strategies per cohort",
      "build early detection of customers at risk of churn",
      "improve the service per customer life-cycle stage">>

\* the per-cohort block of get_cohort_insights
CohortPerformance(t) ==
    IF Len(t.columns) > 1
    THEN [g \in Range(t.index) |->
            LET valid == [j \in DOMAIN t.columns |-> t.values[<<g, t.columns[j]>>]]
            IN  [initial_retention |-> valid[2],
                 avg_retention     |-> RMean(Tail(valid)),
                 retention_decline |-> RSub(valid[2], valid[Len(valid)])]]
    ELSE << >>

\* the dict get_cohort_insights returns when the table has more than one
\* period column and one of them is period 1
Insights(t) ==
    LET has(p) == p \in Range(t.columns)
        m1 == ColumnMean(t, 1)
        m3 == IF has(3) THEN ColumnMean(t, 3) ELSE NoNumber
        m6 == IF has(6) THEN ColumnMean(t, 6) ELSE NoNumber
    IN  [retention_trends |->
            [one_month_retention |-> m1, three_month_retention |-> m3,
             six_month_retention |-> m6],
         cohort_performance |-> CohortPerformance(t),
         business_insights |->
            (IF Truthy(m1) THEN <<Month1Message(m1)>> ELSE << >>)
              \o (IF Truthy(m3) /\ Truthy(m1) THEN <<DropMessage(m1, m3)>> ELSE << >>),
         recommendations |->
            (IF Truthy(m1) /\ RLt(m1, <<2, 5>>) THEN OnboardingActions ELSE << >>)
              \o (IF Truthy(m3) /\ RLt(m3, <<1, 5>>) THEN MidTermActions ELSE << >>)
              \o GeneralActions]

get_cohort_insights ==
    /\ IF retention_table = None
       THEN /\ Log("get_cohort_insights", "ValueError")
            /\ UNCHANGED insights
       ELSE IF Len(retention_table.columns) > 1
       THEN IF 1 \in Range(retention_table.columns)
            THEN /\ insights' = Insights(retention_table)
                 /\ Log("get_cohort_insights", "ok")
            ELSE \* retention_table[1] names no column
                 /\ Log("get_cohort_insights", "KeyError")
                 /\ UNCHANGED insights
       ELSE \* month_1_retention is read though it was never assigned
            /\ Log("get_cohort_insights", "UnboundLocalError")
            /\ UNCHANGED insights
    /\ UNCHANGED <<tableVars, rfmVars, clvVars, segmentationVars, period_type, cohort_data,
                   retention_table, revenueVars>>

\* the revenue table of analyze_revenue_cohorts: the orders joined to their
\* customer's cohort_group, aggregated per (cohort_group, period_number)
RevenueTable(customers, orders) ==
    LET idx == {k \in DOMAIN orders.rows :
                  \E c \in Range(customers.rows) :
                    c.customer_id = orders.rows[k].customer_id}
        cohort(k) == (CHOOSE c \in Range(customers.rows) :
                        c.customer_id = orders.rows[k].customer_id).cohort_group
        key(k) == <<cohort(k), orders.rows[k].order_period - cohort(k)>>
        keys   == SortedKeys({key(k) : k \in idx})
    IN  [cols |-> {"cohort_group", "period_number", "total_revenue",
                   "avg_revenue_per_order", "active_customers",
                   "avg_revenue_per_customer"},
         rows |-> Eager([i \in DOMAIN keys |->
                    LET mine   == {k \in idx : key(k) = keys[i]}
                        total  == SumOver([k \in mine |->
                                     orders.rows[k].final_amount], mine)
                        active == Cardinality({orders.rows[k].customer_id :
                                                 k \in mine})
                    IN  [cohort_group             |-> keys[i][1],
                         period_number            |-> keys[i][2],
                         total_revenue            |-> total,
                         avg_revenue_per_order    |-> Rat(total, Cardinality(mine)),
                         active_customers         |-> active,
                         avg_revenue_per_customer |-> Rat(total, active)]])]

\* only the monthly branch sets cohort_group and order_period; with another
\* period_type the columns must already be there
analyze_revenue_cohorts ==
    /\ IF period_type = "monthly"
       THEN LET customers == WithColumn(customers_df, "cohort_group",
                                        "signup_date", period_type)
                orders    == WithColumn(orders_df, "order_period",
                                        "order_date", period_type)
            IN  /\ customers_df' = customers
                /\ orders_df' = orders
                /\ revenue_table' = RevenueTable(customers, orders)
                /\ Log("analyze_revenue_cohorts", "ok")
       ELSE IF "cohort_group" \in customers_df.cols
                 /\ "order_period" \in orders_df.cols
       THEN /\ revenue_table' = RevenueTable(customers_df, orders_df)
            /\ Log("analyze_revenue_cohorts", "ok")
            /\ UNCHANGED tableVars
       ELSE \* customers_df[['customer_id', 'cohort_group']] names no column
            /\ Log("analyze_revenue_cohorts", "KeyError")
            /\ UNCHANGED <<tableVars, revenue_table>>
    /\ UNCHANGED <<rfmVars, clvVars, segmentationVars, period_type, cohort_data, retention_table,
                   insights, ltv_data, final_ltv>>

Reverse(q) == [i \in DOMAIN q |-> q[Len(q) + 1 - i]]

\* x left in the order of its rows
KeepOrder(x) == x

\* x.sort_values('period_number') for rows of distinct period_number
SortByPeriod(x) ==
    [i \in DOMAIN x |->
       CHOOSE r \in Range(x) :
         Cardinality({q \in Range(x) : q.period_number < r.period_number}) = i - 1]

\* Series.cumsum() of avg_revenue_per_customer up to row i
RECURSIVE CumSum(_, _)
CumSum(x, i) ==
    IF i = 0 THEN RInt(0)
    ELSE RAdd(CumSum(x, i - 1), x[i].avg_revenue_per_customer)

\* the lambda applied to the rows x of one cohort
LtvOfGroup(x) ==
    LET sorted == SortByPeriod(x)
    IN  Eager([i \in DOMAIN sorted |->
           Merge(sorted[i],
                 [cumulative_revenue_per_customer |-> CumSum(sorted, i)])])

\* groupby('cohort_group').apply(...).reset_index(drop=True): the groups in
\* increasing cohort_group order
RECURSIVE LtvRows(_, _)
LtvRows(rows, groups) ==
    IF Len(groups) = 0 THEN << >>
    ELSE LET g == Head(groups)
             InGroup(r) == r.cohort_group = g
         IN  LtvOfGroup(SelectSeq(rows, InGroup)) \o LtvRows(rows, Tail(groups))

\* groupby('cohort_group')['cumulative_revenue_per_customer'].last()
FinalLtv(rows) ==
    LET groups == SortedSeq({r.cohort_group : r \in Range(rows)})
    IN  [i \in DOMAIN groups |->
           LET last == SetMax({k \in DOMAIN rows :
                                 rows[k].cohort_group = groups[i]})
           IN  [cohort_group |-> groups[i],
                ltv |-> rows[last].cumulative_revenue_per_customer]]

\* called with the table analyze_revenue_cohorts returned, its rows in the
\* order returned or in another order (here: reversed)
calculate_ltv_by_cohort ==
    /\ revenue_table # None
    /\ \E reversed \in BOOLEAN :
         LET rows == IF reversed THEN Reverse(revenue_table.rows)
                     ELSE revenue_table.rows
             out  == LtvRows(rows, SortedSeq({r.cohort_group : r \in Range(rows)}))
         IN  /\ ltv_data' =
                  [cols |-> revenue_table.cols
                              \cup {"cumulative_revenue_per_customer"},
                   rows |-> out]
             /\ final_ltv' = [cols |-> {"cohort_group", "ltv"},
                              rows |-> FinalLtv(out)]
    /\ Log("calculate_ltv_by_cohort", "ok")
    /\ UNCHANGED <<tableVars, rfmVars, clvVars, segmentationVars, period_type, cohort_data,
                   retention_table, insights, revenue_table>>

DefaultRandomState == 42

(***************************************************************************)
(* CustomerSegmentation.  StandardScaler, KMeans and silhouette_score are  *)
(* scikit-learn's.  The scaled features enter only through the distances   *)
(* between customers, which are kept as integers: the squared distance of  *)
(* the scaled rows i and j is Weight[i, j] times a positive factor that is *)
(* the same for all pairs, and the k-means steps and the silhouette        *)
(* coefficients do not change when all distances are multiplied by one     *)
(* factor.  KMeans draws its initial centres from a generator seeded with  *)
(* random_state; the generator is a small linear congruential one and the  *)
(* initial centres are distinct rows drawn with it.                        *)
(***************************************************************************)
Features == <<"frequency", "monetary", "recency">>

FeatureFill == [frequency |-> 0, monetary |-> 0, recency |-> 0]

\* rfm_data[features].fillna(0) as a sequence of rows
SegmentationData(df) ==
    LET filled == FillNa([cols |-> df.cols \cap Range(Features),
                          rows |-> [i \in DOMAIN df.rows |->
                                      Restrict(df.rows[i], Range(Features))]],
                         FeatureFill)
    IN  filled.rows

\* n^2 times the variance of feature f over the rows x (0 for a constant
\* feature, which StandardScaler leaves unscaled: it becomes 0 everywhere)
ScaledVariance(x, f) ==
    LET n == Len(x)
        idx == DOMAIN x
    IN  n * SumOver([i \in idx |-> x[i][f] * x[i][f]], idx)
          - SumOver([i \in idx |-> x[i][f]], idx)
              * SumOver([i \in idx |-> x[i][f]], idx)

\* the squared distances of the scaled rows, up to one common factor:
\* sum over the features f of (x[i][f] - x[j][f])^2 / variance(f), times the
\* product of the variances of the non-constant features
Weight(x) ==
    LET var == [f \in Range(Features) |-> ScaledVariance(x, f)]
        live == {f \in Range(Features) : var[f] > 0}
        others(f) == live \ {f}
        prod(f) == IF others(f) = {} THEN 1
                   ELSE IF Cardinality(others(f)) = 1
                        THEN var[CHOOSE g \in others(f) : TRUE]
                        ELSE LET g == CHOOSE h \in others(f) : TRUE
                                 h == CHOOSE h \in others(f) : h # g
                             IN  var[g] * var[h]
        term == [f \in live |-> prod(f)]
    IN  Eager([ij \in (DOMAIN x) \X (DOMAIN x) |->
           SumOver([f \in live |->
                      (x[ij[1]][f] - x[ij[2]][f]) * (x[ij[1]][f] - x[ij[2]][f])
                        * term[f]], live)])

\* the next state of the generator
Draw(s) == (75 * s + 74) % 65537

\* k distinct rows drawn as initial centres, and the generator after them
RECURSIVE PickCentres(_, _, _, _)
PickCentres(n, k, s, chosen) ==
    IF Len(chosen) = k THEN [centres |-> chosen, rng |-> s]
    ELSE LET s2  == Draw(s)
             idx == (s2 % n) + 1
         IN  IF idx \in Range(chosen) THEN PickCentres(n, k, s2, chosen)
             ELSE PickCentres(n, k, s2, Append(chosen, idx))

\* the first of the candidates c in 0..k-1 that minimises the quotient
\* num[c] / den[c] (np.argmin returns the first minimum)
ArgMinQuot(k, num, den) ==
    CHOOSE c \in 0..(k - 1) :
      /\ \A d \in 0..(k - 1) : num[c] * den[d] <= num[d] * den[c]
      /\ \A d \in 0..(c - 1) : num[d] * den[c] > num[c] * den[d]

\* the labels of the rows for centres that are rows: the nearest centre
NearestCentre(w, n, centres) ==
    Eager([i \in 1..n |->
       ArgMinQuot(Len(centres),
                  [c \in 0..(Len(centres) - 1) |-> w[<<i, centres[c + 1]>>]],
                  [c \in 0..(Len(centres) - 1) |-> 1])])

Members(labels, c) == {i \in DOMAIN labels : labels[i] = c}

\* the sum of the weights over the unordered pairs of S
PairSum(w, S) ==
    LET pairs == {ij \in S \X S : ij[1] < ij[2]}
    IN  SumOver([ij \in pairs |-> w[ij]], pairs)

\* |S|^2 times the squared distance of row i to the mean of the rows in S
ToMean(w, i, S) ==
    Cardinality(S) * SumOver([j \in S |-> w[<<i, j>>]], S) - PairSum(w, S)

\* an empty cluster takes the row that is farthest from the mean of its own
\* cluster (the first such row, of a cluster that keeps another row), until
\* no cluster is empty
RECURSIVE Relocate(_, _, _)
Relocate(w, k, labels) ==
    LET empty == {c \in 0..(k - 1) : Members(labels, c) = {}}
    IN  IF empty = {} THEN labels
        ELSE LET c    == SetMin(empty)
                 own(i) == Members(labels, labels[i])
                 size(i) == Cardinality(own(i))
                 donors == {i \in DOMAIN labels : size(i) > 1}
                 far  == CHOOSE i \in donors :
                           /\ \A j \in donors :
                                ToMean(w, j, own(j)) * size(i) * size(i)
                                  <= ToMean(w, i, own(i)) * size(j) * size(j)
                           /\ \A j \in donors : j < i =>
                                ToMean(w, j, own(j)) * size(i) * size(i)
                                  < ToMean(w, i, own(i)) * size(j) * size(j)
             IN  Relocate(w, k, [labels EXCEPT ![far] = c])

\* one iteration: the centres become the means of their clusters and every
\* row takes the label of the nearest centre
LloydStep(w, k, labels) ==
    LET groups == Relocate(w, k, labels)
        mem  == Eager([c \in 0..(k - 1) |-> Members(groups, c)])
        size == Eager([c \in 0..(k - 1) |-> Cardinality(mem[c]) * Cardinality(mem[c])])
    IN  Eager([i \in DOMAIN labels |->
           ArgMinQuot(k, [c \in 0..(k - 1) |-> ToMean(w, i, mem[c])], size)])

\* the iterations until the labels no longer change
RECURSIVE Lloyd(_, _, _)
Lloyd(w, k, labels) ==
    LET next == LloydStep(w, k, labels)
    IN  IF next = labels THEN labels ELSE Lloyd(w, k, next)

\* inertia_: the sum of the squared distances of the rows to their centres
RECURSIVE Inertia(_, _, _)
Inertia(w, k, labels) ==
    IF k = 0 THEN RInt(0)
    ELSE LET S == Members(labels, k - 1)
         IN  IF S = {} THEN Inertia(w, k - 1, labels)
             ELSE RAdd(Rat(PairSum(w, S), Cardinality(S)),
                       Inertia(w, k - 1, labels))

\* the runs of one fit: each run draws its centres from the generator where
\* the run before left it, and a run replaces the best only with a smaller
\* inertia
RECURSIVE BestRun(_, _, _, _, _, _)
BestRun(w, n, k, s, runs, best) ==
    IF runs = 0 THEN best
    ELSE LET init   == PickCentres(n, k, s, << >>)
             labels == Lloyd(w, k, NearestCentre(w, n, init.centres))
             run    == [labels |-> labels, inertia |-> Inertia(w, k, labels)]
         IN  BestRun(w, n, k, init.rng, runs - 1,
                     IF best = None \/ RLt(run.inertia, best.inertia)
                     THEN run ELSE best)

NInit == 10

\* the same fit drawing from numpy's global generator, whose state depends
\* on the draws made before, instead of a generator seeded with random_state
RECURSIVE GlobalGenerator(_)
GlobalGenerator(draws) ==
    IF draws = 0 THEN DefaultRandomState ELSE Draw(GlobalGenerator(draws - 1))

KMeansFitUnseeded(w, n, k, seed) ==
    BestRun(w, n, k, GlobalGenerator(np_random), NInit, None)

\* KMeans(n_clusters=k, random_state=seed, n_init=10).fit(scaled_df): the
\* generator of a fit starts from the seed
KMeansFit(w, n, k, seed) == BestRun(w, n, k, seed, NInit, None)

\* the largest r in lo..hi with r * r <= x
RECURSIVE SqrtIn(_, _, _)
SqrtIn(x, lo, hi) ==
    IF lo = hi THEN lo
    ELSE LET mid == (lo + hi + 1) \div 2
         IN  IF mid * mid <= x THEN SqrtIn(x, mid, hi) ELSE SqrtIn(x, lo, mid - 1)

\* the distances of the scaled rows in units of 1/64 of the square root of
\* the weight unit (the floats of pairwise_distances, to that precision)
Distance(w) ==
    Eager([ij \in DOMAIN w |-> SqrtIn(w[ij] * 4096, 0, 46340)])

\* a quotient num / den as a number of millionths, rounded down
Millionths(num, den) ==
    LET q1 == (num * 1000) \div den
        r1 == (num * 1000) % den
    IN  q1 * 1000 + (r1 * 1000) \div den

\* the silhouette coefficient of row i, in millionths: (b - a) / max(a, b)
\* for a the mean distance to the other rows of its cluster and b the least
\* mean distance to the rows of another cluster; 0 for a cluster of one row
SilhouetteSample(d, labels, i) ==
    LET own    == Members(labels, labels[i]) \ {i}
        others == {c \in Range(labels) : c # labels[i]}
        total(S) == SumOver([j \in S |-> d[<<i, j>>]], S)
        near   == CHOOSE c \in others :
                    \A e \in others :
                      total(Members(labels, c)) * Cardinality(Members(labels, e))
                        <= total(Members(labels, e)) * Cardinality(Members(labels, c))
        an == total(own)
        ad == Cardinality(own)
        bn == total(Members(labels, near))
        bd == Cardinality(Members(labels, near))
    IN  IF own = {} THEN 0
        ELSE IF an * bd >= bn * ad
        THEN (IF an = 0 THEN 0 ELSE -Millionths(an * bd - bn * ad, an * bd))
        ELSE Millionths(bn * ad - an * bd, bn * ad)

\* silhouette_score(scaled_df, labels) times the number of rows
SilhouetteScore(d, labels) ==
    SumOver([i \in DOMAIN labels |-> SilhouetteSample(d, labels, i)], DOMAIN labels)

MinClusters == 2

MaxClusters == 7

\* k_range = range(2, 8)
KRange == MinClusters..MaxClusters

\* silhouette_score raises ValueError unless 2 <= number of labels <= n - 1
ValidLabels(labels) ==
    /\ Cardinality(Range(labels)) >= 2
    /\ Cardinality(Range(labels)) <= Len(labels) - 1

\* the last k with the largest score
ArgMaxKLast(scores) ==
    CHOOSE k \in KRange :
      /\ \A j \in KRange : scores[j] <= scores[k]
      /\ \A j \in KRange : j > k => scores[j] < scores[k]

\* k_range[np.argmax(silhouette_scores)]: the first k with the largest score
ArgMaxK(scores) ==
    CHOOSE k \in KRange :
      /\ \A j \in KRange : scores[j] <= scores[k]
      /\ \A j \in KRange : j < k => scores[j] < scores[k]

\* np.round(x * 100) / 100: to two decimals, a half to the even neighbour
Round2(q) ==
    LET n  == q[1] * 100
        fl == n \div q[2]
        r2 == 2 * (n - fl * q[2])
    IN  Rat(IF r2 < q[2] THEN fl
            ELSE IF r2 > q[2] THEN fl + 1
            ELSE IF fl % 2 = 0 THEN fl ELSE fl + 1, 100)

\* segment_profiles: the mean of each feature per cluster to two decimals
SegmentProfiles(df, labels) ==
    [c \in Range(labels) |->
       [f \in Range(Features) |->
          Round2(Rat(SumOver([i \in Members(labels, c) |-> df.rows[i][f]],
                             Members(labels, c)),
                     Cardinality(Members(labels, c))))]]

\* _assign_behavioral_segment_names (the source names are Korean); overall
\* is the mean of the cluster means
SegmentNames(profiles) ==
    LET ids == SortedSeq(DOMAIN profiles)
        overall(f) == RMean([i \in DOMAIN ids |-> profiles[ids[i]][f]])
        above(c, f) == RLt(overall(f), profiles[c][f])
        recent(c)   == RLt(profiles[c]["recency"], overall("recency"))
    IN  [c \in DOMAIN profiles |->
           IF above(c, "frequency") /\ above(c, "monetary")
           THEN (IF recent(c) THEN "VIP" ELSE "past VIP")
           ELSE IF above(c, "frequency")
           THEN (IF recent(c) THEN "loyal" ELSE "at-risk")
           ELSE IF above(c, "monetary")
           THEN (IF recent(c) THEN "high-spend" ELSE "dormant high-spend")
           ELSE (IF recent(c) THEN "new/general" ELSE "low-engagement")]

\* the table behavioral_segmentation stores and returns
SegmentedData(df, labels) ==
    LET names == SegmentNames(SegmentProfiles(df, labels))
    IN  [cols |-> df.cols \cup {"behavioral_segment", "behavioral_segment_name"},
         rows |-> [i \in DOMAIN df.rows |->
                     Merge(df.rows[i],
                           [behavioral_segment      |-> labels[i],
                            behavioral_segment_name |-> names[labels[i]]])]]

behavioral_segmentation ==
    LET n  == Len(rfm_table.rows)
        rs == random_state
    IN  \E w \in {Weight(SegmentationData(rfm_table))} :
        \* the fit of the largest k first: it decides most refusals
        \E last \in {IF n < MaxClusters THEN << >>
                     ELSE KMeansFit(w, n, MaxClusters, rs).labels} :
        \E fit \in {IF ~ValidLabels(last) THEN << >>
                    ELSE Eager([k \in KRange |->
                                  IF k = MaxClusters THEN last
                                  ELSE KMeansFit(w, n, k, rs).labels])} :
          /\ IF fit = << >> \/ \E k \in KRange : ~ValidLabels(fit[k])
             THEN \* KMeans needs n_samples >= n_clusters, silhouette_score
                  \* 2 <= n_labels <= n_samples - 1
                  /\ Log("behavioral_segmentation", "ValueError")
                  /\ UNCHANGED <<segmented_data, optimal_k, silhouette_scores>>
             ELSE \E d \in {Distance(w)} :
                  \E scores \in {Eager([k \in KRange |->
                                           SilhouetteScore(d, fit[k])])} :
                  \E labels \in {KMeansFit(w, n, ArgMaxK(scores), rs).labels} :
                    /\ silhouette_scores' = scores
                    /\ optimal_k' = ArgMaxK(scores)
                    /\ segmented_data' = SegmentedData(rfm_table, labels)
                    /\ Log("behavioral_segmentation", "ok")
          /\ UNCHANGED <<tableVars, rfmVars, clvVars, cohortVars, rfm_table,
                         random_state, np_random>>

MaxDraws == 2

\* other code of the process draws from numpy's global generator
\* (np.random.normal, np.random.choice of the data generator)
numpy_global_draw ==
    /\ np_random < MaxDraws
    /\ np_random' = np_random + 1
    /\ UNCHANGED <<tableVars, rfmVars, clvVars, cohortVars, rfm_table,
                   random_state, segmented_data, optimal_k,
                   silhouette_scores, lastCall,
                   lastResult, ran>>

(***************************************************************************)
(* Initial states: freshly constructed analyzers and the caller's tables.  *)
(***************************************************************************)
Scores == 1..5

\* an RFM table without rows
NoRfmTable ==
    [cols |-> {"customer_id", "frequency", "monetary", "recency"}, rows |-> << >>]

Fresh ==
    /\ rfm_data = None
    /\ segments = None
    /\ segment_insights = None
    /\ clv_insights = None
    /\ segmented_data = None
    /\ optimal_k = None
    /\ silhouette_scores = None
    /\ random_state = DefaultRandomState
    /\ np_random = 0
    /\ clv_data = None
    /\ cohort_data = None
    /\ retention_table = None
    /\ insights = None
    /\ revenue_table = None
    /\ ltv_data = None
    /\ final_ltv = None
    /\ lastCall = "__init__"
    /\ lastResult = "ok"
    /\ ran = {}

\* tables of 1..MaxCust customers with histories from hs, ghost history from gs
Tables(hs, gs, ss) ==
    /\ rfm_table = NoRfmTable
    /\ \E n \in 1..MaxCust :
      \E hist \in [1..n -> hs], ghost \in gs, signup \in [1..n -> ss] :
        /\ customers_df = CustomersTable(signup)
        /\ orders_df = OrdersTable(hist, ghost)

\* the same with the histories in non-decreasing order of customer_id, for
\* the engines whose computations do not depend on the order of the rows
SortedTables(hs, gs, ss) ==
    /\ rfm_table = NoRfmTable
    /\ \E n \in 1..MaxCust :
      \E hist \in [1..n -> hs], ghost \in gs, signup \in [1..n -> ss] :
        /\ \A i \in 1..(n - 1) : hist[i] <= hist[i + 1]
        /\ customers_df = CustomersTable(signup)
        /\ orders_df = OrdersTable(hist, ghost)

InitSegment ==
    /\ Fresh
    /\ row \in [R_score : Scores, F_score : Scores, M_score : Scores]
    /\ customers_df = CustomersTable(<< >>)
    /\ orders_df = OrdersTable(<< >>, 1)
    /\ rfm_table = NoRfmTable
    /\ reference_date \in ReferenceDates
    /\ period_type = "monthly"

SpecSegment == InitSegment /\ [][apply_assign_segment]_vars

InitRFM ==
    /\ Fresh
    /\ row = [R_score |-> 1, F_score |-> 1, M_score |-> 1]
    /\ Tables(1..4, {1, 2}, {0})
    /\ reference_date \in ReferenceDates
    /\ period_type = "monthly"

NextRFM == calculate_rfm_scores \/ assign_segments

SpecRFM == InitRFM /\ [][NextRFM]_vars

\* larger tables for the quantile scorers: 1..MaxScored customers, every order
\* a customer's, the histories in non-decreasing order of customer_id
InitScorer ==
    /\ Fresh
    /\ row = [R_score |-> 1, F_score |-> 1, M_score |-> 1]
    /\ rfm_table = NoRfmTable
    /\ \E n \in 1..MaxScored :
         \E hist \in [1..n -> 1..4] :
           /\ \A i \in 1..(n - 1) : hist[i] <= hist[i + 1]
           /\ customers_df = CustomersTable([i \in 1..n |-> 0])
           /\ orders_df = OrdersTable(hist, 1)
    /\ reference_date \in ReferenceDates
    /\ period_type = "monthly"

SpecScorer == InitScorer /\ [][NextRFM]_vars

(***************************************************************************)
(* Claims about RFMAnalyzer.                                               *)
(***************************************************************************)
ClaimedPriority ==
    <<"Champions", "Loyal Customers", "Potential Loyalists", "New Customers",
      "Promising", "Cannot Lose Them", "At Risk", "Need Attention",
      "About to Sleep", "Hibernating", "Lost">>

\* the positions of ClaimedPriority whose inclusive ranges hold the triple
Boxes(rw) ==
    {i \in DOMAIN ClaimedPriority :
       LET b == segment_rules[ClaimedPriority[i]]
       IN  /\ rw.R_score \in b.R[1]..b.R[2]
           /\ rw.F_score \in b.F[1]..b.F[2]
           /\ rw.M_score \in b.M[1]..b.M[2]}

\* C1: for every score triple in 1..5 x 1..5 x 1..5, assign_segment returns
\* the first segment of the claimed order whose R, F and M ranges all hold
\* the triple, 'Others' when none does, and never raises.
C1_FirstMatchWins ==
    "segment" \in DOMAIN row =>
        /\ lastResult = "ok"
        /\ IF Boxes(row) = {} THEN row.segment = "Others"
           ELSE row.segment = ClaimedPriority[SetMin(Boxes(row))]

\* a labelled triple that lies in two boxes, the later of which is At Risk
C1_Witness ==
    /\ "segment" \in DOMAIN row
    /\ Cardinality(Boxes(row)) >= 2
    /\ row.segment = "Cannot Lose Them"

HasOrders(cid) == \E o \in Range(orders_df.rows) : o.customer_id = cid

\* C2: after calculate_rfm_scores and assign_segments, every customer with
\* zero orders has segment 'Lost'.
C2_ZeroOrdersLost ==
    (rfm_data # None /\ "segment" \in rfm_data.cols) =>
        \A r \in Range(rfm_data.rows) :
            ~HasOrders(r.customer_id) => r.segment = "Lost"

\* C3: for customers a and b with orders, recency[a] < recency[b] implies
\* R_score[a] >= R_score[b].
C3_RecentScoresHigher ==
    rfm_data # None =>
        \A a, b \in Range(rfm_data.rows) :
            (HasOrders(a.customer_id) /\ HasOrders(b.customer_id)
               /\ a.recency < b.recency) => a.R_score >= b.R_score

\* C4: in the table returned by calculate_rfm_scores, R_score, F_score and
\* M_score of every customer are integers in 1..5.
C4_ScoresInRange ==
    rfm_data # None =>
        \A r \in Range(rfm_data.rows) :
            /\ r.R_score \in 1..5
            /\ r.F_score \in 1..5
            /\ r.M_score \in 1..5

\* a returned table with a customer without orders and scored customers
C4_Witness ==
    /\ lastCall = "calculate_rfm_scores" /\ lastResult = "ok"
    /\ \E r \in Range(rfm_data.rows) : ~HasOrders(r.customer_id)
    /\ Cardinality({r \in Range(rfm_data.rows) : HasOrders(r.customer_id)}) >= 3

\* C5: calculate_rfm_scores returns exactly one row per customer of the
\* customers table; a customer with zero orders has recency 999, frequency 0,
\* monetary 0, scores 1, 1, 1 and composite score '111'.
C5_OneRowPerCustomer ==
    rfm_data # None =>
        /\ Len(rfm_data.rows) = Len(customers_df.rows)
        /\ \A i \in DOMAIN customers_df.rows :
             LET r == rfm_data.rows[i]
             IN  /\ r.customer_id = customers_df.rows[i].customer_id
                 /\ ~HasOrders(r.customer_id) =>
                      /\ r.recency = 999 /\ r.frequency = 0 /\ r.monetary = 0
                      /\ r.R_score = 1 /\ r.F_score = 1 /\ r.M_score = 1
                      /\ r.RFM_score = "111"

\* a returned table that holds customers without orders among ordering ones
C5_Witness ==
    /\ lastCall = "calculate_rfm_scores" /\ lastResult = "ok"
    /\ Cardinality({r \in Range(rfm_data.rows) : ~HasOrders(r.customer_id)}) >= 2
    /\ \E r \in Range(rfm_data.rows) : HasOrders(r.customer_id)
    /\ HasOrders(GhostId)

InitCLV ==
    /\ Fresh
    /\ row = [R_score |-> 1, F_score |-> 1, M_score |-> 1]
    /\ SortedTables(DOMAIN Histories, {1, 2}, {0})
    /\ orders_df.rows # << >>
    /\ reference_date \in ReferenceDates
    /\ period_type = "monthly"

NextCLV ==
    \/ calculate_historical_clv
    \/ calculate_predictive_clv
    \/ segment_customers_by_clv

SpecCLV == InitCLV /\ [][NextCLV]_vars

\* the insight operations of RFMAnalyzer and CLVAnalyzer next to the steps
\* that build the CLV table
InitInsights ==
    /\ Fresh
    /\ row = [R_score |-> 1, F_score |-> 1, M_score |-> 1]
    /\ SortedTables({1, 2, 3, 4}, {1, 2}, {0})
    /\ orders_df.rows # << >>
    /\ reference_date \in ReferenceDates
    /\ period_type = "monthly"

NextInsights ==
    \/ NextCLV
    \/ get_clv_insights
    \/ get_segment_insights

SpecInsights == InitInsights /\ [][NextInsights]_vars

InitCohort ==
    /\ Fresh
    /\ row = [R_score |-> 1, F_score |-> 1, M_score |-> 1]
    /\ SortedTables({1, 2, 3}, {1, 2}, SignupDates)
    /\ \E o \in Range(orders_df.rows) : o.customer_id # GhostId
    /\ reference_date \in ReferenceDates
    /\ period_type \in {"monthly", "weekly", "daily"}

NextCohort ==
    \/ create_signup_cohorts
    \/ create_retention_table
    \/ get_cohort_insights

SpecCohort == InitCohort /\ [][NextCohort]_vars

NextRevenue ==
    \/ create_signup_cohorts
    \/ analyze_revenue_cohorts
    \/ calculate_ltv_by_cohort

SpecRevenue == InitCohort /\ [][NextRevenue]_vars

\* all three analyzers working on the same tables
Init ==
    /\ Fresh
    /\ row = [R_score |-> 1, F_score |-> 1, M_score |-> 1]
    /\ SortedTables({1, 2}, {1}, {0})
    /\ orders_df.rows # << >>
    /\ reference_date \in ReferenceDates
    /\ period_type = "monthly"

Next == NextRFM \/ NextCLV \/ NextCohort

Spec == Init /\ [][Next]_vars

(***************************************************************************)
(* Claims about the call order of the engines and about CLVAnalyzer.       *)
(***************************************************************************)
\* C6: a dependent step called on an engine whose prerequisite step has not
\* run raises the explicit error (ValueError) and leaves the engine's stored
\* state unchanged: calculate_predictive_clv before calculate_historical_clv,
\* create_retention_table before create_signup_cohorts, get_cohort_insights
\* before create_retention_table, assign_segments before calculate_rfm_scores.
C6_MissingPrerequisiteRaises ==
    [][/\ (lastCall' = "calculate_predictive_clv"
             /\ "calculate_historical_clv" \notin ran)
          => (lastResult' = "ValueError" /\ UNCHANGED clv_data)
       /\ (lastCall' = "create_retention_table"
             /\ "create_signup_cohorts" \notin ran)
          => (lastResult' = "ValueError"
                /\ UNCHANGED <<cohort_data, retention_table>>)
       /\ (lastCall' = "get_cohort_insights"
             /\ "create_retention_table" \notin ran)
          => (lastResult' = "ValueError"
                /\ UNCHANGED <<cohort_data, retention_table>>)
       /\ (lastCall' = "assign_segments"
             /\ "calculate_rfm_scores" \notin ran)
          => (lastResult' = "ValueError" /\ UNCHANGED <<rfm_data, segments>>)
      ]_vars

\* assign_segments has just been refused on an analyzer whose
\* calculate_rfm_scores has not returned, while the other engines have worked
C6_Witness ==
    /\ lastCall = "assign_segments" /\ lastResult = "ValueError"
    /\ "calculate_rfm_scores" \notin ran
    /\ "calculate_predictive_clv" \in ran
    /\ "create_retention_table" \in ran

\* C7: segment_customers_by_clv called after calculate_historical_clv but
\* before any calculate_predictive_clv fails with the usage error (ValueError)
\* naming the missing step, and leaves clv_data unchanged.
C7_SegmentNeedsPredictive ==
    [][(lastCall' = "segment_customers_by_clv"
          /\ "calculate_historical_clv" \in ran
          /\ "calculate_predictive_clv" \notin ran)
       => (lastResult' = "ValueError" /\ UNCHANGED clv_data)]_vars

Carries(df, col) ==
    /\ col \in df.cols
    /\ \A r \in Range(df.rows) : col \in DOMAIN r

\* C8: in every reachable state clv_data carries clv_segment only if it
\* carries predictive_clv, and predictive_clv only if it carries
\* historical_clv.
C8_ColumnDependencies ==
    clv_data # None =>
        /\ "clv_segment" \in clv_data.cols => Carries(clv_data, "predictive_clv")
        /\ "predictive_clv" \in clv_data.cols => Carries(clv_data, "historical_clv")

\* a segmented table on which a repeated calculate_predictive_clv has failed
C8_Witness ==
    /\ lastCall = "calculate_predictive_clv" /\ lastResult = "KeyError"
    /\ Carries(clv_data, "clv_segment")
    /\ Len(clv_data.rows) >= 3

\* C9: a second calculate_predictive_clv right after a successful one
\* succeeds and leaves every customer's spending_growth_rate,
\* trend_multiplier and predictive_clv as they were.
C9_PredictiveRepeatable ==
    [][(lastCall = "calculate_predictive_clv" /\ lastResult = "ok"
          /\ lastCall' = "calculate_predictive_clv")
       => /\ lastResult' = "ok"
          /\ \A i \in DOMAIN clv_data.rows :
               \A c \in {"spending_growth_rate", "trend_multiplier",
                         "predictive_clv"} :
                 /\ c \in DOMAIN clv_data'.rows[i]
                 /\ clv_data'.rows[i][c] = clv_data.rows[i][c]]_vars

CountSegment(name) ==
    Cardinality({i \in DOMAIN clv_data.rows : clv_data.rows[i].clv_segment = name})

\* C10: for N customers with pairwise distinct predictive_clv, the number of
\* High Value customers and the number of Low Value customers are each
\* floor(N/5) or ceil(N/5).
C10_TopAndBottomFifth ==
    (/\ lastCall = "segment_customers_by_clv" /\ lastResult = "ok"
     /\ \A i, j \in DOMAIN clv_data.rows :
          i # j => clv_data.rows[i].predictive_clv # clv_data.rows[j].predictive_clv)
    => LET N == Len(clv_data.rows)
           fifths == {N \div 5, (N + 4) \div 5}
       IN  /\ CountSegment("High Value") \in fifths
           /\ CountSegment("Low Value") \in fifths

\* C11: after segment_customers_by_clv, a customer without orders whose
\* predictive_clv of 0 is strictly below every other customer's is labelled
\* 'Low Value' (customer C of the scenario A: orders 40 + 60, B: one order of
\* 50, C: no order).
C11_NoOrdersLowValue ==
    (lastCall = "segment_customers_by_clv" /\ lastResult = "ok") =>
        \A r \in Range(clv_data.rows) :
            (/\ ~HasOrders(r.customer_id)
             /\ r.predictive_clv = RInt(0)
             /\ \A q \in Range(clv_data.rows) :
                   q.customer_id # r.customer_id
                     => RLt(r.predictive_clv, q.predictive_clv))
            => r.clv_segment = "Low Value"

(***************************************************************************)
(* Claims about CohortAnalyzer.                                            *)
(***************************************************************************)
\* the customers of cohort g, and those of them with an order in period p
CohortMembers(g) ==
    {c \in Range(customers_df.rows) : c.cohort_group = g}

ActiveMembers(g, p) ==
    {c \in CohortMembers(g) :
       \E o \in Range(orders_df.rows) :
         o.customer_id = c.customer_id /\ o.order_period - g = p}

\* C12: in the cohort table of create_signup_cohorts, every row of
\* period_number 0 (a cohort with an order in its signup period) has
\* retention_rate 1.
C12_PeriodZeroFullRetention ==
    cohort_data # None =>
        \A r \in Range(cohort_data.rows) :
            r.period_number = 0 => r.retention_rate = RInt(1)

\* C13: every row (cohort_group, period_number) of the cohort table has
\* retention_rate = (distinct customers of the cohort who ordered in that
\* period) / (all customers of the cohort), and 0 <= retention_rate <= 1.
C13_RetentionIsActiveOverTotal ==
    cohort_data # None =>
        \A r \in Range(cohort_data.rows) :
            LET active == Cardinality(ActiveMembers(r.cohort_group, r.period_number))
                total  == Cardinality(CohortMembers(r.cohort_group))
            IN  /\ total > 0
                /\ r.retention_rate[1] * total = active * r.retention_rate[2]
                /\ RLe(RInt(0), r.retention_rate)
                /\ RLe(r.retention_rate, RInt(1))

\* a cohort of which some customers never ordered, some ordered in the row's
\* period and some only in another period
C13_Witness ==
    /\ cohort_data # None
    /\ \E r \in Range(cohort_data.rows) :
         /\ r.active_customers >= 1
         /\ r.total_customers >= 3
         /\ \E c \in CohortMembers(r.cohort_group) : ~HasOrders(c.customer_id)
         /\ \E c \in CohortMembers(r.cohort_group) :
              /\ HasOrders(c.customer_id)
              /\ c \notin ActiveMembers(r.cohort_group, r.period_number)

\* the sum of avg_revenue_per_customer over a set of rows
RECURSIVE RevenuePerCustomer(_)
RevenuePerCustomer(S) ==
    IF S = {} THEN RInt(0)
    ELSE LET r == CHOOSE x \in S : TRUE
         IN  RAdd(r.avg_revenue_per_customer, RevenuePerCustomer(S \ {r}))

\* C14: in the tables of calculate_ltv_by_cohort (all final_amount >= 0),
\* cumulative_revenue_per_customer of a row is the sum of
\* avg_revenue_per_customer over the rows of its cohort up to its
\* period_number, it does not decrease as period_number increases within a
\* cohort, and the cohort's ltv is the cumulative value at the cohort's
\* largest period_number.
C14_LtvIsRunningSum ==
    ltv_data # None =>
        LET rows == Range(ltv_data.rows)
            upto(r) == {q \in rows : /\ q.cohort_group = r.cohort_group
                                     /\ q.period_number <= r.period_number}
        IN  /\ \A r \in rows :
                 r.cumulative_revenue_per_customer = RevenuePerCustomer(upto(r))
            /\ \A r, q \in rows :
                 (r.cohort_group = q.cohort_group
                    /\ r.period_number < q.period_number)
                 => RLe(r.cumulative_revenue_per_customer,
                        q.cumulative_revenue_per_customer)
            /\ \A f \in Range(final_ltv.rows) :
                 \E r \in rows :
                   /\ r.cohort_group = f.cohort_group
                   /\ \A q \in rows : q.cohort_group = r.cohort_group
                                         => q.period_number <= r.period_number
                   /\ f.ltv = r.cumulative_revenue_per_customer
            /\ {f.cohort_group : f \in Range(final_ltv.rows)}
                 = {r.cohort_group : r \in rows}

\* an LTV table of two cohorts, one of them with three periods, computed from
\* a revenue table handed over in reversed row order
C14_Witness ==
    /\ lastCall = "calculate_ltv_by_cohort"
    /\ ltv_data # None
    /\ Len(final_ltv.rows) = 2
    /\ \E f \in Range(final_ltv.rows) :
         Cardinality({r \in Range(ltv_data.rows) :
                        r.cohort_group = f.cohort_group}) >= 3
    /\ \E r \in Range(ltv_data.rows) :
         /\ RLt(r.avg_revenue_per_customer, r.cumulative_revenue_per_customer)
         /\ RLt(r.cumulative_revenue_per_customer,
                (CHOOSE f \in Range(final_ltv.rows) :
                   f.cohort_group = r.cohort_group).ltv)

\* the orders of the customers of cohort g placed in period p
CohortOrders(g, p) ==
    {k \in DOMAIN orders_df.rows :
       \E c \in CohortMembers(g) :
         /\ c.customer_id = orders_df.rows[k].customer_id
         /\ orders_df.rows[k].order_period - g = p}

\* C21: an order whose customer_id has no row in the customers table
\* contributes to no (cohort_group, period_number) row of the cohort table
\* or of the revenue table: every row counts as active_customers exactly the
\* customers of the customers table who ordered in it (at least one), every
\* revenue row totals exactly their orders, and the rows together hold
\* exactly the orders of the customers of the customers table.
C21_GhostOrdersExcluded ==
    /\ cohort_data # None =>
          \A r \in Range(cohort_data.rows) :
            /\ r.active_customers
                 = Cardinality(ActiveMembers(r.cohort_group, r.period_number))
            /\ r.active_customers >= 1
    /\ revenue_table # None =>
          /\ \A r \in Range(revenue_table.rows) :
               LET mine == CohortOrders(r.cohort_group, r.period_number)
               IN  /\ mine # {}
                   /\ r.active_customers
                        = Cardinality(ActiveMembers(r.cohort_group, r.period_number))
                   /\ r.total_revenue
                        = SumOver([k \in mine |-> orders_df.rows[k].final_amount],
                                  mine)
          /\ SumOver([i \in DOMAIN revenue_table.rows |->
                        revenue_table.rows[i].total_revenue],
                     DOMAIN revenue_table.rows)
               = LET known == {k \in DOMAIN orders_df.rows :
                                orders_df.rows[k].customer_id # GhostId}
                 IN  SumOver([k \in known |-> orders_df.rows[k].final_amount],
                             known)

\* both tables computed from orders of which one names no customer, with a
\* cohort that ordered in its signup period
C21_Witness ==
    /\ cohort_data # None
    /\ revenue_table # None
    /\ HasOrders(GhostId)
    /\ \E r \in Range(cohort_data.rows) : r.period_number = 0
    /\ \E r \in Range(revenue_table.rows) : r.period_number = 0

(***************************************************************************)
(* Claims about the frame of the engines and about the scorers.            *)
(***************************************************************************)
\* C15: no engine operation modifies the tables passed to it: a step of
\* calculate_rfm_scores, calculate_historical_clv, calculate_predictive_clv,
\* create_signup_cohorts or analyze_revenue_cohorts leaves the caller's
\* customers and orders tables with the same columns and values.
C15_InputsUnmodified ==
    [][lastCall' \in {"calculate_rfm_scores", "calculate_historical_clv",
                      "calculate_predictive_clv", "create_signup_cohorts",
                      "analyze_revenue_cohorts"}
       => UNCHANGED <<customers_df, orders_df>>]_vars

\* the customers of the scored table who have orders, and how many of them
\* have score s on axis col
Scored == {i \in DOMAIN rfm_data.rows : HasOrders(rfm_data.rows[i].customer_id)}

AllOrdersOfCustomers ==
    \A o \in Range(orders_df.rows) :
      \E c \in Range(customers_df.rows) : c.customer_id = o.customer_id

BucketSize(col, s) == Cardinality({i \in Scored : rfm_data.rows[i][col] = s})

C19_ClampedMultiplier ==
    (lastCall = "calculate_predictive_clv" /\ lastResult = "ok") =>
        \A r \in Range(clv_data.rows) :
            LET g == r.spending_growth_rate
                m == r.trend_multiplier
                raw == RAdd(RInt(1), RMul(g, <<1, 2>>))
            IN  /\ RLe(<<1, 2>>, m) /\ RLe(m, RInt(2))
                /\ m = (IF RLt(raw, <<1, 2>>) THEN <<1, 2>>
                        ELSE IF RLt(RInt(2), raw) THEN RInt(2) ELSE raw)
                /\ r.predictive_clv = RMul(r.historical_clv, m)
                /\ RLe(RMul(<<1, 2>>, r.historical_clv), r.predictive_clv)
                /\ RLe(r.predictive_clv, RMul(RInt(2), r.historical_clv))

\* a customer whose spending grew more than twofold (growth above 2, so the
\* clamp acts), one whose spending shrank, and one without orders
C19_Witness ==
    /\ lastCall = "calculate_predictive_clv" /\ lastResult = "ok"
    /\ \E r \in Range(clv_data.rows) :
         RLt(RInt(2), r.spending_growth_rate) /\ r.trend_multiplier = RInt(2)
    /\ \E r \in Range(clv_data.rows) :
         RLt(r.spending_growth_rate, RInt(0)) /\ RLt(r.trend_multiplier, RInt(1))
    /\ \E r \in Range(clv_data.rows) : ~HasOrders(r.customer_id)

\* the latest order date of the orders table and the customer's spending in
\* the 180 days up to it and in the 180 days before those
LatestOrder == SetMax({o.order_date : o \in Range(orders_df.rows)})

RecentSpend(cid) ==
    LET mine == {k \in DOMAIN orders_df.rows :
                   /\ orders_df.rows[k].customer_id = cid
                   /\ orders_df.rows[k].order_date >= LatestOrder - 180}
    IN  SumOver([k \in mine |-> orders_df.rows[k].final_amount], mine)

PrecedingSpend(cid) ==
    LET mine == {k \in DOMAIN orders_df.rows :
                   /\ orders_df.rows[k].customer_id = cid
                   /\ orders_df.rows[k].order_date >= LatestOrder - 360
                   /\ orders_df.rows[k].order_date < LatestOrder - 180}
    IN  SumOver([k \in mine |-> orders_df.rows[k].final_amount], mine)

\* C20: after calculate_predictive_clv, a customer without spending in the
\* most recent 180 days (even one who spent in the 180 days before) and a
\* customer with recent spending but none in the 180 days before both have
\* growth rate 0 and trend_multiplier 1; every customer with growth rate 0
\* has predictive_clv = historical_clv.
C20_NoTrendDefaults ==
    (lastCall = "calculate_predictive_clv" /\ lastResult = "ok") =>
        \A r \in Range(clv_data.rows) :
            /\ (RecentSpend(r.customer_id) = 0
                   \/ PrecedingSpend(r.customer_id) = 0)
               => /\ r.spending_growth_rate = RInt(0)
                  /\ r.trend_multiplier = RInt(1)
            /\ r.spending_growth_rate = RInt(0)
               => r.predictive_clv = r.historical_clv

\* one customer who spent only in the preceding window, one who spent only
\* in the recent window, and one with a trend
C20_Witness ==
    /\ lastCall = "calculate_predictive_clv" /\ lastResult = "ok"
    /\ \E r \in Range(clv_data.rows) :
         RecentSpend(r.customer_id) = 0 /\ PrecedingSpend(r.customer_id) > 0
    /\ \E r \in Range(clv_data.rows) :
         RecentSpend(r.customer_id) > 0 /\ PrecedingSpend(r.customer_id) = 0
    /\ \E r \in Range(clv_data.rows) : r.spending_growth_rate # RInt(0)

(***************************************************************************)
(* Claims about the insight operations.                                    *)
(***************************************************************************)
\* the shape of an insight object: the keys overall, segments and
\* recommendations, every entry of segments with the four fields
UniformInsight(d) ==
    /\ {"overall", "segments", "recommendations"} \subseteq DOMAIN d
    /\ \A g \in DOMAIN d.segments :
         {"customer_count", "avg_value", "total_value", "contribution_pct"}
           \subseteq DOMAIN d.segments[g]

\* C17: the object returned by an engine's insight operation
\* (get_segment_insights, get_clv_insights) has the keys overall, segments
\* and recommendations, and each entry of segments has the fields
\* customer_count, avg_value, total_value and contribution_pct.
C17_UniformInsightShape ==
    /\ segment_insights # None => UniformInsight(segment_insights)
    /\ clv_insights # None => UniformInsight(clv_insights)

(***************************************************************************)
(* CustomerSegmentation on RFM tables of a fixed pool of customers.        *)
(***************************************************************************)
MaxClustered == 8

\* the customers of the RFM tables: frequency, monetary (in units of 10000),
\* recency (in months)
CustomerPool ==
    << [customer_id |-> 1, frequency |-> 1, monetary |-> 1, recency |-> 4],
       [customer_id |-> 2, frequency |-> 1, monetary |-> 2, recency |-> 3],
       [customer_id |-> 3, frequency |-> 2, monetary |-> 3, recency |-> 1],
       [customer_id |-> 4, frequency |-> 2, monetary |-> 2, recency |-> 0],
       [customer_id |-> 5, frequency |-> 1, monetary |-> 0, recency |-> 4],
       [customer_id |-> 6, frequency |-> 2, monetary |-> 3, recency |-> 0],
       [customer_id |-> 7, frequency |-> 1, monetary |-> 1, recency |-> 2],
       [customer_id |-> 8, frequency |-> 2, monetary |-> 1, recency |-> 3],
       [customer_id |-> 9, frequency |-> 1, monetary |-> 3, recency |-> 1] >>

\* the RFM table of the customers of the pool whose number is in ids
PoolTable(ids) ==
    [cols |-> {"customer_id", "frequency", "monetary", "recency"},
     rows |-> LET q == SortedSeq(ids)
              IN  [i \in DOMAIN q |-> CustomerPool[q[i]]]]

\* MaxClustered customers of whom every two have the same three values
TwinTable ==
    [cols |-> {"customer_id", "frequency", "monetary", "recency"},
     rows |-> [i \in 1..MaxClustered |->
                 [CustomerPool[(i + 1) \div 2] EXCEPT !.customer_id = i]]]

\* eight customers in three groups of unequal size: five occasional buyers,
\* two regular ones and one heavy buyer
SkewTable ==
    [cols |-> {"customer_id", "frequency", "monetary", "recency"},
     rows |-> [i \in 1..8 |->
                 IF i <= 5
                 THEN [customer_id |-> i, frequency |-> 1, monetary |-> 1,
                       recency |-> 2]
                 ELSE IF i <= 7
                 THEN [customer_id |-> i, frequency |-> 2, monetary |-> 2,
                       recency |-> 1]
                 ELSE [customer_id |-> i, frequency |-> 4, monetary |-> 4,
                       recency |-> 0]]]

InitBehavior ==
    /\ Fresh
    /\ row = [R_score |-> 1, F_score |-> 1, M_score |-> 1]
    /\ customers_df = CustomersTable(<< >>)
    /\ orders_df = OrdersTable(<< >>, 1)
    /\ \/ \E ids \in SUBSET DOMAIN CustomerPool :
            /\ Cardinality(ids) \in (MaxClustered - 1)..MaxClustered
            /\ rfm_table = PoolTable(ids)
       \/ rfm_table = TwinTable
       \/ rfm_table = SkewTable
    /\ reference_date \in ReferenceDates
    /\ period_type = "monthly"

NextBehavior == behavioral_segmentation \/ numpy_global_draw

SpecBehavior == InitBehavior /\ [][NextBehavior]_vars

C22_BestSilhouetteSmallestK ==
    segmented_data # None =>
        /\ optimal_k \in MinClusters..MaxClusters
        /\ \A j \in MinClusters..MaxClusters :
             /\ silhouette_scores[j] <= silhouette_scores[optimal_k]
             /\ j < optimal_k => silhouette_scores[j] < silhouette_scores[optimal_k]
        /\ \A r \in Range(segmented_data.rows) :
             r.behavioral_segment \in 0..(optimal_k - 1)

\* a clustering chosen among candidates of which a larger k has the same,
\* maximal, score and a smaller k a smaller one
C22_Witness ==
    /\ lastCall = "behavioral_segmentation" /\ lastResult = "ok"
    /\ \E j \in MinClusters..MaxClusters :
         j > optimal_k /\ silhouette_scores[j] = silhouette_scores[optimal_k]
    /\ \E j \in MinClusters..MaxClusters :
         j < optimal_k /\ silhouette_scores[j] < silhouette_scores[optimal_k]
    /\ {r.behavioral_segment : r \in Range(segmented_data.rows)}
         = 0..(optimal_k - 1)

\* the mean of feature f over a non-empty set of rows of segmented_data
FeatureMean(S, f) ==
    Rat(SumOver([i \in S |-> segmented_data.rows[i][f]], S), Cardinality(S))

\* the name of the cluster of row i decided against the means over all
\* customers
NameAgainstDataset(i) ==
    LET all  == DOMAIN segmented_data.rows
        mine == {j \in all : segmented_data.rows[j].behavioral_segment
                                = segmented_data.rows[i].behavioral_segment}
        above(f) == RLt(FeatureMean(all, f), FeatureMean(mine, f))
        recent   == RLt(FeatureMean(mine, "recency"), FeatureMean(all, "recency"))
    IN  IF above("frequency") /\ above("monetary")
        THEN (IF recent THEN "VIP" ELSE "past VIP")
        ELSE IF above("frequency")
        THEN (IF recent THEN "loyal" ELSE "at-risk")
        ELSE IF above("monetary")
        THEN (IF recent THEN "high-spend" ELSE "dormant high-spend")
        ELSE (IF recent THEN "new/general" ELSE "low-engagement")

\* C23: the name of each behavioural cluster is decided by comparing the
\* cluster's mean frequency, monetary and recency with the means over all
\* customers of the dataset: frequency and monetary both above gives 'VIP'
\* (recency below) or 'past VIP', frequency only 'loyal' or 'at-risk',
\* monetary only 'high-spend' or 'dormant high-spend', neither 'new/general'
\* or 'low-engagement'.
C23_NamesAgainstDatasetMeans ==
    segmented_data # None =>
        \A i \in DOMAIN segmented_data.rows :
            segmented_data.rows[i].behavioral_segment_name = NameAgainstDataset(i)

\* the score triples that assign_segment labels with name
TriplesOf(name) ==
    {rw \in [R_score : Scores, F_score : Scores, M_score : Scores] :
       assign_segment(rw) = name}

\* C24: each of the 11 named RFM segments is reachable: for each of them
\* some score triple (R, F, M) in 1..5 x 1..5 x 1..5 is labelled with it by
\* assign_segment, i.e. no segment's box is covered by the boxes of the
\* segments before it in the priority order.
C24_EverySegmentReachable ==
    "segment" \in DOMAIN row =>
        \A name \in DOMAIN segment_rules : TriplesOf(name) # {}

\* the (cohort_group, period_number, active_customers) triples of a table
ActiveTriples(df) ==
    {<<r.cohort_group, r.period_number, r.active_customers>> :
       r \in Range(df.rows)}

\* C25: for every period type, analyze_revenue_cohorts succeeds, also on
\* tables on which create_signup_cohorts has not been called, and the
\* active_customers of each (cohort_group, period_number) of its result are
\* those create_signup_cohorts of the same analyzer computes from the same
\* tables, whatever was called before.
C25_RevenueCohortsForEveryPeriodType ==
    [][lastCall' = "analyze_revenue_cohorts"
       => /\ lastResult' = "ok"
          /\ ActiveTriples(revenue_table')
               = ActiveTriples(
                   CohortTable(WithColumn(customers_df, "cohort_group",
                                          "signup_date", period_type),
                               WithColumn(orders_df, "order_period",
                                          "order_date", period_type)))]_vars

\* C27: calculate_historical_clv on a CLVAnalyzer in any state, the
\* predictive and the segmented ones included, returns it to the historical
\* state: clv_data then has one row per customer with historical_clv and
\* without predictive_clv, trend_multiplier or clv_segment; a
\* calculate_predictive_clv that follows succeeds, and so does a
\* segment_customers_by_clv after that.
C27_HistoricalResets ==
    [][/\ lastCall' = "calculate_historical_clv"
          => /\ lastResult' = "ok"
             /\ [i \in DOMAIN clv_data'.rows |-> clv_data'.rows[i].customer_id]
                  = [i \in DOMAIN customers_df.rows |->
                       customers_df.rows[i].customer_id]
             /\ Carries(clv_data', "historical_clv")
             /\ \A c \in {"predictive_clv", "trend_multiplier", "clv_segment"} :
                  /\ c \notin clv_data'.cols
                  /\ \A r \in Range(clv_data'.rows) : c \notin DOMAIN r
       /\ (lastCall = "calculate_historical_clv"
             /\ lastCall' = "calculate_predictive_clv")
          => (lastResult' = "ok" /\ Carries(clv_data', "predictive_clv"))
       /\ (lastCall = "calculate_predictive_clv" /\ lastResult = "ok"
             /\ lastCall' = "segment_customers_by_clv")
          => (lastResult' = "ok" /\ Carries(clv_data', "clv_segment"))]_vars

\* calculate_historical_clv has just returned on an analyzer that had
\* segmented its customers before, for several customers
C27_Witness ==
    /\ lastCall = "calculate_historical_clv"
    /\ "segment_customers_by_clv" \in ran
    /\ "clv_segment" \notin clv_data.cols
    /\ Len(clv_data.rows) >= 3

\* larger tables for the CLV segmentation: 1..MaxScored customers, every
\* order a customer's, the histories in non-decreasing order of customer_id
InitValue ==
    /\ Fresh
    /\ row = [R_score |-> 1, F_score |-> 1, M_score |-> 1]
    /\ rfm_table = NoRfmTable
    /\ \E n \in 1..MaxScored :
         \E hist \in [1..n -> DOMAIN Histories] :
           /\ \A i \in 1..(n - 1) : hist[i] <= hist[i + 1]
           /\ hist[n] > 1
           /\ customers_df = CustomersTable([i \in 1..n |-> 0])
           /\ orders_df = OrdersTable(hist, 1)
    /\ reference_date \in ReferenceDates
    /\ period_type = "monthly"

SpecValue == InitValue /\ [][NextCLV]_vars

\* Low Value < Medium Value < High Value
SegmentOrder(name) ==
    CASE name = "Low Value" -> 1
      [] name = "Medium Value" -> 2
      [] name = "High Value" -> 3

\* C28: segment_customers_by_clv is monotone in predictive_clv: for any two
\* customers a and b, predictive_clv[a] <= predictive_clv[b] implies
\* segment[a] <= segment[b] in the order Low Value < Medium Value < High
\* Value; in particular customers with equal predictive_clv receive the same
\* segment.
C28_SegmentMonotone ==
    (lastCall = "segment_customers_by_clv" /\ lastResult = "ok") =>
        \A a, b \in Range(clv_data.rows) :
            RLe(a.predictive_clv, b.predictive_clv)
              => SegmentOrder(a.clv_segment) <= SegmentOrder(b.clv_segment)

\* a segmentation into all three segments in which two customers share the
\* largest predictive_clv
C28_Witness ==
    /\ lastCall = "segment_customers_by_clv" /\ lastResult = "ok"
    /\ {r.clv_segment : r \in Range(clv_data.rows)}
         = {"Low Value", "Medium Value", "High Value"}
    /\ \E a, b \in Range(clv_data.rows) :
         /\ a.customer_id # b.customer_id
         /\ a.predictive_clv = b.predictive_clv
         /\ \A r \in Range(clv_data.rows) : RLe(r.predictive_clv, a.predictive_clv)

\* C26: get_cohort_insights never reports on a retention table built from
\* superseded cohort data: called right after a create_signup_cohorts, when
\* no create_retention_table has run since, it returns no insights (it is to
\* fail with the missing-prerequisite error).
C26_NoStaleRetentionTable ==
    [][(lastCall = "create_signup_cohorts" /\ lastCall' = "get_cohort_insights")
       => (lastResult' # "ok" /\ UNCHANGED insights)]_vars

\* C29: once create_retention_table has succeeded, get_cohort_insights
\* returns an insight object without raising, for every retention table: also
\* for a table with only one period column and for a table with several
\* period columns none of which is period 1.
C29_InsightsNeverRaise ==
    [][(lastCall' = "get_cohort_insights" /\ retention_table # None)
       => (lastResult' = "ok" /\ insights' # None)]_vars

\* customers who signed up in March 2024 or in March 2025, for cohorts whose
\* only orders lie in the month after the signup month
LateSignupDates == {70, 430}

InitOnboarding ==
    /\ Fresh
    /\ row = [R_score |-> 1, F_score |-> 1, M_score |-> 1]
    /\ SortedTables({1, 2, 3}, {1}, LateSignupDates)
    /\ orders_df.rows # << >>
    /\ reference_date \in ReferenceDates
    /\ period_type = "monthly"

SpecOnboarding == InitOnboarding /\ [][NextCohort]_vars

\* the three assessments of the 1-month retention
Month1Messages ==
    {"1-month retention is good (50% or more)",
     "1-month retention is moderate (30-50%)",
     "1-month retention is low (under 30%)"}

\* C30: whenever the retention table has a period-1 column,
\* get_cohort_insights puts exactly one 1-month retention assessment in
\* business_insights, chosen by the average period-1 retention r: 'good'
\* when r >= 0.5, 'moderate' when 0.3 <= r < 0.5, 'low' when r < 0.3; and
\* whenever r < 0.4 the three onboarding recommendations are included in
\* recommendations.
C30_MonthOneAssessment ==
    [][(/\ lastCall' = "get_cohort_insights"
        /\ retention_table # None
        /\ 1 \in Range(retention_table.columns))
       => LET r == ColumnMean(retention_table, 1)
              said == insights'.business_insights
              recs == insights'.recommendations
          IN  /\ lastResult' = "ok"
              /\ Cardinality({i \in DOMAIN said : said[i] \in Month1Messages}) = 1
              /\ IF RLe(<<1, 2>>, r)
                 THEN "1-month retention is good (50% or more)" \in Range(said)
                 ELSE IF RLe(<<3, 10>>, r)
                 THEN "1-month retention is moderate (30-50%)" \in Range(said)
                 ELSE "1-month retention is low (under 30%)" \in Range(said)
              /\ RLt(r, <<2, 5>>)
                   => \A a \in Range(OnboardingActions) : a \in Range(recs)]_vars

====
